---- MODULE Spec2Model ----
(***************************************************************************)
(* A state-machine model of heyyall, an HTTP load generator.               *)
(*                                                                         *)
(*   main            src/unnamed/part_001 (cancel on signal),              *)
(*                   src/heyyall.go (progress bar)                         *)
(*   NewScheduler,   src/internal/scheduler.go:51-159                      *)
(*   Start,                                                                *)
(*   calcEPConfig,                                                         *)
(*   validateConfig                                                        *)
(*   ProcessRqst     src/unnamed/part_011:40-141                           *)
(*   ResponseHandler src/internal/reporter_test.go:184-343                 *)
(*                                                                         *)
(* Durations are counted in whole seconds for the configuration and in     *)
(* abstract ticks for request latencies.                                   *)
(***************************************************************************)
EXTENDS Integers, Sequences, FiniteSets, TLC

(***************************************************************************)
(* Bounds of the model.                                                    *)
(***************************************************************************)
\* largest concurrency (MaxConcurrentRqsts), NumRequests and number of
\* endpoints of the configurations given to NewScheduler
SchedMaxConc == 4
SchedMaxNum == 4
SchedMaxEps == 3
\* the same bounds for the configurations that are run
MaxConc == 2
MaxNum == 2
MaxEps == 2
\* iterations explored per worker when the count bound is MaxRqsts
MaxIter == 2

(***************************************************************************)
(* Program constants.                                                      *)
(***************************************************************************)
\* api.MaxRqsts
MaxRqsts == 1000000
\* math.MaxInt32, the initial minBinCount of generateHistogram
MaxInt32 == 2147483647
\* time.Duration(math.MaxInt64), the initial minimum of the statistics; the
\* model keeps durations 32 bits wide, so this is the largest of them and
\* their products wrap modulo 2^32 as the program's wrap modulo 2^64
MaxDuration == 2147483647

\* the weights (RqstPercent) endpoints are drawn from
Pcts == {0, 33, 34, 50, 100}
\* the weights of the configurations that are run
RunPcts == {50, 100}
\* the RqstRate values explored: 0 is unthrottled
Rates == {0, 3}
\* the RunDuration strings of the configuration file
RunDurStrings == {"0s", "1s", "-1s", "", "1"}
\* the RunDuration of the configurations that are run
RunDurs == {"0s", "1s"}
\* HTTP status codes a request can complete with in a whole run
RunStatuses == {200}
\* and when ProcessRqst is called on its own
RqstrStatuses == {200, 404}
\* request latencies, in ticks
Durations == {1}

\* the URL and method of the endpoint at position i of the configuration
EpURL(i) == IF i = 3 THEN "u2" ELSE "u1"
EpMethod(i) == IF i = 2 THEN "POST" ELSE "GET"

\* api.Endpoint
Endpoint(i, pct) == [URL |-> EpURL(i), Method |-> EpMethod(i), RqstPercent |-> pct]

\* every list of at most maxLen endpoints with weights in pcts
EndpointLists(maxLen, pcts) ==
    UNION { { [i \in 1..n |-> Endpoint(i, p[i])] : p \in [1..n -> pcts] } : n \in 0..maxLen }

\* api.LoadTestConfig
Configs(maxConc, maxNum, maxLen, pcts, durs) ==
    [MaxConcurrentRqsts : 0..maxConc,
     RqstRate           : Rates,
     RunDuration        : durs,
     NumRequests        : 0..maxNum,
     Endpoints          : EndpointLists(maxLen, pcts)]

(***************************************************************************)
(* Pure functions of the scheduler.                                        *)
(***************************************************************************)
\* time.ParseDuration on the strings of RunDurStrings, in seconds
ParseDuration(s) ==
    CASE s = "0s"  -> [ok |-> TRUE,  d |-> 0]
      [] s = "1s"  -> [ok |-> TRUE,  d |-> 1]
      [] s = "-1s" -> [ok |-> TRUE,  d |-> 0 - 1]
      [] OTHER     -> [ok |-> FALSE, d |-> 0]

RECURSIVE SumPct(_)
SumPct(eps) == IF eps = <<>> THEN 0 ELSE Head(eps).RqstPercent + SumPct(Tail(eps))

\* Go's % on a non-negative dividend
GoMod(a, b) == a % b

\* a validateConfig without the rule that numRqsts and runDur exclude each other
validateConfig_NoExclusive(concurrency, rate, runDur, numRqsts, eps) ==
    IF runDur < 1 /\ numRqsts < concurrency THEN "floor"
    ELSE IF runDur < 1 /\ Len(eps) > numRqsts THEN "coverage"
    ELSE IF Len(eps) = 0 THEN "divzero"
    ELSE IF GoMod(concurrency, Len(eps)) # 0 THEN "uneven"
    ELSE IF SumPct(eps) # 100 THEN "pctsum"
    ELSE "none"

\* validateConfig: the error returned, "none" for nil, "divzero" for the
\* run-time panic of concurrency%len(eps) with no endpoint
validateConfig(concurrency, rate, runDur, numRqsts, eps) ==
    IF numRqsts > 0 /\ runDur > 0 THEN "exclusive"
    ELSE IF runDur < 1 /\ numRqsts < concurrency THEN "floor"
    ELSE IF runDur < 1 /\ Len(eps) > numRqsts THEN "coverage"
    ELSE IF Len(eps) = 0 THEN "divzero"
    ELSE IF GoMod(concurrency, Len(eps)) # 0 THEN "uneven"
    ELSE IF SumPct(eps) # 100 THEN "pctsum"
    ELSE "none"

NoSched == [valid |-> FALSE]

\* NewScheduler: the returned (*Scheduler, error), or the panic
NewScheduler(c) ==
    LET dur == ParseDuration(c.RunDuration) IN
    IF ~dur.ok THEN [sched |-> NoSched, err |-> "parse", panic |-> FALSE]
    ELSE LET e == validateConfig(c.MaxConcurrentRqsts, c.RqstRate, dur.d, c.NumRequests, c.Endpoints) IN
         IF e = "divzero" THEN [sched |-> NoSched, err |-> "none", panic |-> TRUE]
         ELSE IF e # "none" THEN [sched |-> NoSched, err |-> e, panic |-> FALSE]
         ELSE [sched |-> [valid       |-> TRUE,
                          concurrency |-> c.MaxConcurrentRqsts,
                          rqstRate    |-> c.RqstRate,
                          runDur      |-> dur.d,
                          numRqsts    |-> c.NumRequests,
                          endpoints   |-> c.Endpoints],
               err |-> "none", panic |-> FALSE]

\* the (n, pct) for which float64(n)*(float64(pct)/100) exceeds the exact
\* product although that product is an integer (n <= 100, 0 <= pct <= 100)
FloatExcess ==
    {<<25, 28>>, <<25, 56>>, <<50, 14>>, <<50, 28>>, <<50, 56>>, <<75, 28>>, <<75, 56>>,
     <<75, 68>>, <<100, 7>>, <<100, 14>>, <<100, 28>>, <<100, 55>>, <<100, 56>>}

\* a rounding down in place of the ceiling
CeilPct_Floor(n, pct) == (n * pct) \div 100

\* int(math.Ceil(float64(n) * (float64(pct) / float64(100))))
CeilPct(n, pct) ==
    (0 - ((0 - n * pct) \div 100)) + (IF <<n, pct>> \in FloatExcess THEN 1 ELSE 0)

\* int(math.Ceil(float64(a) / float64(b))); a/0 is +Inf (or NaN for 0/0), whose
\* conversion to int is implementation-specific: modelled by 0, never used
CeilDiv(a, b) == IF b = 0 THEN 0 ELSE 0 - ((0 - a) \div b)

\* Scheduler.calcEPConfig
calcEPConfig(s, ep) ==
    LET numEPGoroutines == CeilPct(s.concurrency, ep.RqstPercent)
        numEPRqsts      == CeilPct(s.numRqsts, ep.RqstPercent)
        epRqstRate      == CeilPct(s.rqstRate, ep.RqstPercent)
    IN [numRqstsPerGoroutine |-> CeilDiv(numEPRqsts, numEPGoroutines),
        numEPGoroutines      |-> numEPGoroutines,
        epGoroutineRqstRate  |-> CeilDiv(epRqstRate, numEPGoroutines)]


(***************************************************************************)
(* The state of one run of the program.                                    *)
(***************************************************************************)
VARIABLES
    cfg,        \* the api.LoadTestConfig read by main
    mainPc,     \* position of main
    sched,      \* the *Scheduler returned by NewScheduler
    schedErr,   \* the error returned by NewScheduler
    startPc,    \* position of Scheduler.Start
    wg,         \* counter of the sync.WaitGroup of Start
    workers,    \* the goroutines spawned by Start, each running ProcessRqst
    ctx,        \* Requestor.Ctx: "active", "canceled" or "deadline"
    ch,         \* contents of the response channel (ResponseC)
    chClosed,   \* how many times ResponseC was closed
    badSend,    \* a send on ResponseC after its close was attempted
    aggPc,      \* position of ResponseHandler.Start
    responses,  \* the Responses buffered by ResponseHandler.Start
    results,    \* api.RunResults
    published,  \* how many times the results were printed
    doneClosed, \* how many times DoneC was closed
    pbPc,       \* position of startProgressBar
    bar,        \* increments of the progress bar
    crashed,    \* the process died of an unrecovered panic
    actualNumRqstrs, \* MockRequestor.actualNumRqstrs, the requests handed to the test double
    call,       \* the function applied on its own and its arguments
    ret,        \* <<>> before that function has returned, <<its result>> after
    rqstor,     \* the queue-based Requestor of requestor.go and the position of its Start
    rqstDist,   \* the Requests received over schedC, counted by URL
    spawn       \* the loops of Scheduler.Start taken turn by turn, and its goroutines

vars == <<cfg, mainPc, sched, schedErr, startPc, wg, workers, ctx, ch, chClosed,
          badSend, aggPc, responses, results, published, doneClosed, pbPc, bar, crashed,
          actualNumRqstrs, call, ret, rqstor, rqstDist, spawn>>

mainVars == <<cfg, mainPc, sched, schedErr>>
aggVars  == <<aggPc, responses, results, published, doneClosed>>
pbVars   == <<pbPc, bar>>
queueVars == <<rqstor, rqstDist>>
auxVars  == <<queueVars, spawn>>
extVars  == <<actualNumRqstrs, call, ret, auxVars>>
runVars  == <<cfg, mainPc, sched, schedErr, startPc, wg, workers, ctx, ch, chClosed,
              badSend, aggPc, responses, results, published, doneClosed, pbPc, bar, crashed>>

\* no function is applied on its own
NoCall == [fn |-> "none"]

\* no queue-based Requestor has been created
NoRqstor == [pc |-> "none"]

\* Scheduler.Start is not followed turn by turn
NoSpawn == [pc |-> "none"]

\* an empty Go map, and the insertion and lookup of a key
EmptyMap == [k \in {} |-> 0]
MapPut(m, k, v) == [x \in (DOMAIN m) \cup {k} |-> IF x = k THEN v ELSE m[x]]
MapGet(m, k, default) == IF k \in DOMAIN m THEN m[k] ELSE default

\* statistics of a method that start with a minimum of 0
NewRqstStats_ZeroMin ==
    [TotalRqsts           |-> 0,
     TotalRequestDuration |-> 0,
     MaxRqstDuration      |-> 0 - 1,
     MinRqstDuration      |-> 0,
     AvgRqstDuration      |-> 0,
     TimingResults        |-> <<>>]

\* the api.RqstStats a method of an endpoint starts with
NewRqstStats ==
    [TotalRqsts           |-> 0,
     TotalRequestDuration |-> 0,
     MaxRqstDuration      |-> 0 - 1,
     MinRqstDuration      |-> MaxDuration,
     AvgRqstDuration      |-> 0,
     TimingResults        |-> <<>>]

\* the api.EndpointDetail created for a URL seen for the first time
NewEndpointDetail(url) ==
    [URL |-> url, HTTPMethodStatusDist |-> EmptyMap, HTTPMethodRqstStats |-> EmptyMap]

\* the initial RunResults of ResponseHandler.Start: the global RqstStats, the
\* EndpointSummary and the endpoint details (epRunSummary)
InitResults ==
    [TotalRqsts           |-> 0,
     TotalRequestDuration |-> 0,
     MaxRqstDuration      |-> 0 - 1,
     MinRqstDuration      |-> MaxDuration,
     AvgRqstDuration      |-> 0,
     TimingResults        |-> <<>>,
     EndpointSummary      |-> EmptyMap,
     EndpointDetails      |-> EmptyMap]

\* the state after main has read its configuration, created the context and the
\* channels, and started ResponseHandler.Start
InitState(configs, calls) ==
    /\ cfg \in configs
    /\ mainPc = "config"
    /\ sched = NoSched
    /\ schedErr = "none"
    /\ startPc = "idle"
    /\ wg = 0
    /\ workers = <<>>
    /\ ctx = "active"
    /\ ch = <<>>
    /\ chClosed = 0
    /\ badSend = FALSE
    /\ aggPc = "recv"
    /\ responses = <<>>
    /\ results = InitResults
    /\ published = 0
    /\ doneClosed = 0
    /\ pbPc = "off"
    /\ bar = 0
    /\ crashed = FALSE
    /\ actualNumRqstrs = 0
    /\ call \in calls
    /\ ret = <<>>
    /\ rqstor = NoRqstor
    /\ rqstDist = EmptyMap
    /\ spawn = NoSpawn

\* the initial states of a run of the program
InitOf(configs) == InitState(configs, {NoCall})

\* a configuration without endpoints, for when a function is applied on its own
IdleConfig ==
    [MaxConcurrentRqsts |-> 0, RqstRate |-> 0, RunDuration |-> "0s", NumRequests |-> 0,
     Endpoints |-> <<>>]

\* the initial states when one of calls is applied on its own
InitCall(calls) == InitState({IdleConfig}, calls)

\* the process is alive: no panic, no log.Fatal, main has not returned
Running == ~crashed /\ mainPc \notin {"fatal", "exited"}

(***************************************************************************)
(* main                                                                    *)
(***************************************************************************)
\* main calls NewScheduler; an error is fatal
MainNewScheduler ==
    /\ Running /\ mainPc = "config"
    /\ LET r == NewScheduler(cfg) IN
        /\ sched' = r.sched
        /\ schedErr' = r.err
        /\ crashed' = r.panic
        /\ mainPc' = IF r.panic THEN "config" ELSE IF r.err # "none" THEN "fatal" ELSE "new"
    /\ UNCHANGED <<extVars, cfg, startPc, wg, workers, ctx, ch, chClosed, badSend, aggVars, pbVars>>

\* main starts the progress bar and Scheduler.Start, then waits in its select
MainStart ==
    /\ Running /\ mainPc = "new"
    /\ mainPc' = "select"
    /\ startPc' = "spawn"
    /\ pbPc' = "loop"
    /\ UNCHANGED <<extVars, cfg, sched, schedErr, wg, workers, ctx, ch, chClosed, badSend, aggVars, bar, crashed>>

\* main receives SIGINT/SIGTERM, cancels the context and waits for DoneC
MainSignal ==
    /\ Running /\ mainPc = "select"
    /\ mainPc' = "waitDone"
    /\ ctx' = IF ctx = "active" THEN "canceled" ELSE ctx
    /\ UNCHANGED <<extVars, cfg, sched, schedErr, startPc, wg, workers, ch, chClosed, badSend, aggVars, pbVars, crashed>>

\* main of heyyall.go receives SIGINT/SIGTERM and waits for DoneC: cancel is
\* only deferred to the return of main
MainSignalWait ==
    /\ Running /\ mainPc = "select"
    /\ mainPc' = "waitDone"
    /\ UNCHANGED <<extVars, cfg, sched, schedErr, startPc, wg, workers, ctx, ch, chClosed, badSend, aggVars, pbVars, crashed>>

\* main sees DoneC closed and returns
MainExit ==
    /\ Running /\ mainPc \in {"select", "waitDone"}
    /\ doneClosed > 0
    /\ mainPc' = "exited"
    /\ UNCHANGED <<extVars, cfg, sched, schedErr, startPc, wg, workers, ctx, ch, chClosed, badSend, aggVars, pbVars, crashed>>

\* the run duration carried by the context elapses
DeadlineExpire ==
    /\ Running /\ mainPc \in {"select", "waitDone"}
    /\ sched.runDur > 0
    /\ ctx = "active"
    /\ ctx' = "deadline"
    /\ UNCHANGED <<extVars, mainVars, startPc, wg, workers, ch, chClosed, badSend, aggVars, pbVars, crashed>>


(***************************************************************************)
(* Scheduler.Start                                                         *)
(***************************************************************************)
\* a goroutine about to call ProcessRqst(ep, numRqsts, rqstRate)
NewWorker(ep, numRqsts, rqstRate) ==
    [ep |-> ep, numRqsts |-> numRqsts, rqstRate |-> rqstRate, pc |-> "new",
     i |-> 0, issued |-> 0, succeeded |-> 0, sent |-> 0, late |-> 0,
     err |-> "none", status |-> 0]

\* a Start that spawns one goroutine per endpoint, whatever its workerCount
RECURSIVE SpawnFrom_OnePerEndpoint(_, _)
SpawnFrom_OnePerEndpoint(s, k) ==
    IF k > Len(s.endpoints) THEN <<>>
    ELSE LET ep == s.endpoints[k]
             c  == calcEPConfig(s, ep)
         IN <<NewWorker(ep, c.numRqstsPerGoroutine, c.epGoroutineRqstRate)>>
            \o SpawnFrom_OnePerEndpoint(s, k + 1)

\* the goroutines Start spawns for the endpoints k..len(s.endpoints)
RECURSIVE SpawnFrom(_, _)
SpawnFrom(s, k) ==
    IF k > Len(s.endpoints) THEN <<>>
    ELSE LET ep == s.endpoints[k]
             c  == calcEPConfig(s, ep)
         IN [j \in 1..c.numEPGoroutines |->
                NewWorker(ep, c.numRqstsPerGoroutine, c.epGoroutineRqstRate)]
            \o SpawnFrom(s, k + 1)

\* the loops of Start: wg.Add(1) and a goroutine for every worker
StartSpawn ==
    /\ Running /\ startPc = "spawn"
    /\ workers' = SpawnFrom(sched, 1)
    /\ wg' = Len(workers')
    /\ startPc' = "wait"
    /\ UNCHANGED <<extVars, mainVars, ctx, ch, chClosed, badSend, aggVars, pbVars, crashed>>

\* a Start that closes the channel without waiting for its workers
Joined_NoWait == TRUE

\* wg.Wait() has returned
Joined == wg = 0

\* wg.Wait() returns, Start closes the response channel and returns
StartClose ==
    /\ Running /\ startPc = "wait"
    /\ Joined
    /\ chClosed' = chClosed + 1
    /\ startPc' = "done"
    /\ UNCHANGED <<extVars, mainVars, wg, workers, ctx, ch, badSend, aggVars, pbVars, crashed>>

(***************************************************************************)
(* Requestor.ProcessRqst, one goroutine per worker                         *)
(***************************************************************************)
\* capacity of the response channel: make(chan Response, config.MaxConcurrentRqsts)
ChanCap == cfg.MaxConcurrentRqsts

Update(w, rec) == workers' = [workers EXCEPT ![w] = rec]

\* ProcessRqst returns and the goroutine calls wg.Done()
Return(w, rec) ==
    /\ Update(w, [rec EXCEPT !.pc = "returned"])
    /\ wg' = wg - 1
    /\ crashed' = crashed

\* the goroutine panics: the process dies
Panic(w, rec) ==
    /\ Update(w, [rec EXCEPT !.pc = "panicked"])
    /\ wg' = wg
    /\ crashed' = TRUE

\* what the error handling after client.Do does with the outcome of a
\* request: a timeout returns; any other *url.Error leaves the switch and the
\* nil response is dereferenced
AfterDo(w, rec, outcome, status) ==
    CASE outcome = "ok" ->
            /\ Update(w, [rec EXCEPT !.pc = "select", !.succeeded = @ + 1, !.status = status])
            /\ UNCHANGED <<wg, crashed>>
      [] outcome = "timeout" -> Return(w, [rec EXCEPT !.err = "timeout"])
      [] OTHER -> Panic(w, [rec EXCEPT !.err = outcome])

\* a request built without the Requestor's context never sees it done
ReqCtx_Background == "active"

\* the state of the context the request was built with
\* (http.NewRequestWithContext(r.Ctx, ...)), as client.Do sees it
ReqCtx == ctx

\* an entry of ProcessRqst that leaves a numRqsts of 0 as it is
WorkerBegin_NoSentinel(w) ==
    /\ Running /\ workers[w].pc = "new"
    /\ LET rec == workers[w] IN
        IF rec.ep.URL = "" \/ rec.ep.Method = ""
        THEN Return(w, rec)
        ELSE /\ Update(w, [rec EXCEPT !.pc = "loop"])
             /\ UNCHANGED <<wg, crashed>>
    /\ UNCHANGED <<extVars, mainVars, startPc, ctx, ch, chClosed, badSend, aggVars, pbVars>>

\* entry of ProcessRqst: the endpoint check and the MaxRqsts sentinel
WorkerBegin(w) ==
    /\ Running /\ workers[w].pc = "new"
    /\ LET rec == workers[w] IN
        IF rec.ep.URL = "" \/ rec.ep.Method = ""
        THEN Return(w, rec)
        ELSE /\ Update(w, [rec EXCEPT !.pc = "loop",
                                      !.numRqsts = IF @ = 0 THEN MaxRqsts ELSE @])
             /\ UNCHANGED <<wg, crashed>>
    /\ UNCHANGED <<extVars, mainVars, startPc, ctx, ch, chClosed, badSend, aggVars, pbVars>>

\* head of the loop: the loop ends, or client.Do is called; Do on a context
\* that is already done fails at once with the context's error
WorkerDo(w) ==
    /\ Running /\ workers[w].pc = "loop"
    /\ LET rec == workers[w] IN
        IF rec.i >= rec.numRqsts THEN Return(w, rec)
        ELSE /\ (rec.numRqsts # MaxRqsts \/ rec.issued < MaxIter \/ ReqCtx # "active")
             /\ LET r == [rec EXCEPT !.issued = @ + 1] IN
                CASE ReqCtx = "canceled" -> AfterDo(w, r, "canceled", 0)
                  [] ReqCtx = "deadline" -> AfterDo(w, r, "timeout", 0)
                  [] OTHER -> /\ Update(w, [r EXCEPT !.pc = "inflight"])
                              /\ UNCHANGED <<wg, crashed>>
    /\ UNCHANGED <<extVars, mainVars, startPc, ctx, ch, chClosed, badSend, aggVars, pbVars>>

\* the status codes of the responses client.Do returns
Statuses == IF call.fn = "ProcessRqst" THEN RqstrStatuses ELSE RunStatuses

\* the outcomes client.Do can have while the request is in flight
DoOutcomes ==
    {"ok", "timeout", "neterr"}
        \cup (IF ReqCtx = "canceled" THEN {"canceled"} ELSE {})

\* client.Do returns
WorkerDoReturn(w) ==
    /\ Running /\ workers[w].pc = "inflight"
    /\ \E outcome \in DoOutcomes, status \in Statuses :
         /\ (outcome # "ok" => status = 200)
         /\ AfterDo(w, workers[w], outcome, status)
    /\ UNCHANGED <<extVars, mainVars, startPc, ctx, ch, chClosed, badSend, aggVars, pbVars>>

\* the Response of the current iteration
MkResponse(rec, dur) ==
    [HTTPStatus |-> rec.status, URL |-> rec.ep.URL, Method |-> rec.ep.Method,
     RequestDuration |-> dur]

\* a loop that skips an iteration after each Response
AfterSelect_SkipsOne(rec, sleeps) ==
    LET r == [rec EXCEPT !.sent = @ + 1, !.late = IF ctx # "active" THEN @ + 1 ELSE @] IN
    IF rec.rqstRate # 0 /\ sleeps
    THEN [r EXCEPT !.pc = "sleep"]
    ELSE [r EXCEPT !.pc = "loop", !.i = @ + 2]

\* after the select: the rate-limiting sleep, or straight to the next iteration
AfterSelect(rec, sleeps) ==
    LET r == [rec EXCEPT !.sent = @ + 1, !.late = IF ctx # "active" THEN @ + 1 ELSE @] IN
    IF rec.rqstRate # 0 /\ sleeps
    THEN [r EXCEPT !.pc = "sleep"]
    ELSE [r EXCEPT !.pc = "loop", !.i = @ + 1]

\* the select picks the send of the Response
WorkerSend(w) ==
    /\ Running /\ workers[w].pc = "select"
    /\ IF chClosed > 0
       THEN /\ badSend' = TRUE
            /\ Panic(w, workers[w])
            /\ ch' = ch
       ELSE /\ Len(ch) < ChanCap
            /\ \E dur \in Durations, sleeps \in BOOLEAN :
                 /\ (workers[w].rqstRate = 0 => ~sleeps)
                 /\ ch' = Append(ch, MkResponse(workers[w], dur))
                 /\ Update(w, AfterSelect(workers[w], sleeps))
            /\ UNCHANGED <<wg, crashed, badSend>>
    /\ UNCHANGED <<extVars, mainVars, startPc, ctx, chClosed, aggVars, pbVars>>

\* the select picks <-r.Ctx.Done()
WorkerCtxDone(w) ==
    /\ Running /\ workers[w].pc = "select"
    /\ ctx # "active"
    /\ Return(w, workers[w])
    /\ UNCHANGED <<extVars, mainVars, startPc, ctx, ch, chClosed, badSend, aggVars, pbVars>>

\* time.Sleep(delta) is over
WorkerWake(w) ==
    /\ Running /\ workers[w].pc = "sleep"
    /\ Update(w, [workers[w] EXCEPT !.pc = "loop", !.i = @ + 1])
    /\ UNCHANGED <<extVars, mainVars, startPc, wg, ctx, ch, chClosed, badSend, aggVars, pbVars, crashed>>


(***************************************************************************)
(* ResponseHandler.Start, the aggregator                                   *)
(***************************************************************************)
\* statistics whose maximum is the duration of the latest Response
accumulateRqstStats_LastIsMax(resp, st) ==
    [st EXCEPT
        !.TotalRqsts           = @ + 1,
        !.TotalRequestDuration = @ + resp.RequestDuration,
        !.MaxRqstDuration      = resp.RequestDuration,
        !.MinRqstDuration      = IF resp.RequestDuration < @ THEN resp.RequestDuration ELSE @,
        !.TimingResults        = Append(@, resp.RequestDuration)]

\* the statistics of one method of one endpoint after a Response
accumulateRqstStats(resp, st) ==
    [st EXCEPT
        !.TotalRqsts           = @ + 1,
        !.TotalRequestDuration = @ + resp.RequestDuration,
        !.MaxRqstDuration      = IF resp.RequestDuration > @ THEN resp.RequestDuration ELSE @,
        !.MinRqstDuration      = IF resp.RequestDuration < @ THEN resp.RequestDuration ELSE @,
        !.TimingResults        = Append(@, resp.RequestDuration)]

\* an accumulation that files every Response under the method GET
accumulateEndpointStats_OneMethod(resp, rr) ==
    LET url     == resp.URL
        method  == "GET"
        counts  == MapGet(rr.EndpointSummary, url, EmptyMap)
        detail  == MapGet(rr.EndpointDetails, url, NewEndpointDetail(url))
        stats   == MapGet(detail.HTTPMethodRqstStats, method, NewRqstStats)
        dist    == MapGet(detail.HTTPMethodStatusDist, method, EmptyMap)
    IN [rr EXCEPT
          !.EndpointSummary = MapPut(@, url, MapPut(counts, method, MapGet(counts, method, 0) + 1)),
          !.EndpointDetails = MapPut(@, url,
              [detail EXCEPT
                 !.HTTPMethodRqstStats  = MapPut(@, method, accumulateRqstStats(resp, stats)),
                 !.HTTPMethodStatusDist =
                     MapPut(@, method, MapPut(dist, resp.HTTPStatus,
                                              MapGet(dist, resp.HTTPStatus, 0) + 1))])]

\* ResponseHandler.accumulateResponseStats, the statistics by endpoint: the
\* EndpointSummary count of (URL, method), the EndpointDetail of the URL
\* created when missing, the RqstStats of the method created when missing, and
\* the status distribution of the method
accumulateEndpointStats(resp, rr) ==
    LET url     == resp.URL
        method  == resp.Method
        counts  == MapGet(rr.EndpointSummary, url, EmptyMap)
        detail  == MapGet(rr.EndpointDetails, url, NewEndpointDetail(url))
        stats   == MapGet(detail.HTTPMethodRqstStats, method, NewRqstStats)
        dist    == MapGet(detail.HTTPMethodStatusDist, method, EmptyMap)
    IN [rr EXCEPT
          !.EndpointSummary = MapPut(@, url, MapPut(counts, method, MapGet(counts, method, 0) + 1)),
          !.EndpointDetails = MapPut(@, url,
              [detail EXCEPT
                 !.HTTPMethodRqstStats  = MapPut(@, method, accumulateRqstStats(resp, stats)),
                 !.HTTPMethodStatusDist =
                     MapPut(@, method, MapPut(dist, resp.HTTPStatus,
                                              MapGet(dist, resp.HTTPStatus, 0) + 1))])]

\* an accumulation that forgets to count the request
accumulateResponseStats_NoCount(resp, rr) ==
    accumulateEndpointStats(resp,
        [rr EXCEPT
            !.TimingResults        = Append(@, resp.RequestDuration),
            !.TotalRequestDuration = @ + resp.RequestDuration,
            !.MaxRqstDuration      = IF resp.RequestDuration > @ THEN resp.RequestDuration ELSE @,
            !.MinRqstDuration      = IF resp.RequestDuration < @ THEN resp.RequestDuration ELSE @])

\* ResponseHandler.accumulateResponseStats: the global statistics, then the
\* statistics by endpoint
accumulateResponseStats(resp, rr) ==
    accumulateEndpointStats(resp,
        [rr EXCEPT
            !.TimingResults        = Append(@, resp.RequestDuration),
            !.TotalRqsts           = @ + 1,
            !.TotalRequestDuration = @ + resp.RequestDuration,
            !.MaxRqstDuration      = IF resp.RequestDuration > @ THEN resp.RequestDuration ELSE @,
            !.MinRqstDuration      = IF resp.RequestDuration < @ THEN resp.RequestDuration ELSE @])

\* the loop over the buffered responses when the channel is found closed; the
\* statistics after each Response are a value before the next is taken
RECURSIVE AccumulateAll(_, _)
AccumulateAll(resps, rr) ==
    IF resps = <<>> THEN rr
    ELSE CHOOSE out \in { AccumulateAll(Tail(resps), next) :
                            next \in {accumulateResponseStats(Head(resps), rr)} } : TRUE

\* an average rounded up
Average_RoundsUp(st) ==
    IF st.TotalRqsts > 0
    THEN (st.TotalRequestDuration + st.TotalRqsts - 1) \div st.TotalRqsts ELSE 0

\* the average of finalizeResponseStats for one RqstStats
Average(st) == IF st.TotalRqsts > 0 THEN st.TotalRequestDuration \div st.TotalRqsts ELSE 0

\* finalizeResponseStats on one EndpointDetail: the average of every method
finalizeEndpointDetail(detail) ==
    LET stats == detail.HTTPMethodRqstStats IN
    [URL                  |-> detail.URL,
     HTTPMethodStatusDist |-> detail.HTTPMethodStatusDist,
     HTTPMethodRqstStats  |->
        [m \in DOMAIN stats |->
            [TotalRqsts           |-> stats[m].TotalRqsts,
             TotalRequestDuration |-> stats[m].TotalRequestDuration,
             MaxRqstDuration      |-> stats[m].MaxRqstDuration,
             MinRqstDuration      |-> stats[m].MinRqstDuration,
             AvgRqstDuration      |-> Average(stats[m]),
             TimingResults        |-> stats[m].TimingResults]]]

\* ResponseHandler.finalizeResponseStats: the global average and the average
\* of every method of every endpoint
finalizeResponseStats(rr) ==
    LET details == rr.EndpointDetails IN
    [TotalRqsts           |-> rr.TotalRqsts,
     TotalRequestDuration |-> rr.TotalRequestDuration,
     MaxRqstDuration      |-> rr.MaxRqstDuration,
     MinRqstDuration      |-> rr.MinRqstDuration,
     AvgRqstDuration      |-> Average(rr),
     TimingResults        |-> rr.TimingResults,
     EndpointSummary      |-> rr.EndpointSummary,
     EndpointDetails      |-> [url \in DOMAIN details |-> finalizeEndpointDetail(details[url])]]

\* an aggregator that sends a progress tick in every run
AggRecv_AlwaysTicks ==
    /\ Running /\ aggPc = "recv"
    /\ Len(ch) > 0
    /\ responses' = Append(responses, Head(ch))
    /\ ch' = Tail(ch)
    /\ aggPc' = "progress"
    /\ UNCHANGED <<extVars, mainVars, startPc, wg, workers, ctx, chClosed, badSend, results,
                   published, doneClosed, pbVars, crashed>>

\* a Response is received and buffered; in a count-limited run the progress
\* bar is to be notified next
AggRecv ==
    /\ Running /\ aggPc = "recv"
    /\ Len(ch) > 0
    /\ responses' = Append(responses, Head(ch))
    /\ ch' = Tail(ch)
    /\ aggPc' = IF cfg.NumRequests > 0 THEN "progress" ELSE "recv"
    /\ UNCHANGED <<extVars, mainVars, startPc, wg, workers, ctx, chClosed, badSend, results,
                   published, doneClosed, pbVars, crashed>>

\* a progress bar that never receives from ProgressC
ProgressListening_Never == FALSE

\* startProgressBar listens on ProgressC only when no run duration is set
ProgressListening == pbPc = "loop" /\ ~(ParseDuration(cfg.RunDuration).d > 0)

\* the total of the progress bar: seconds of the run, or requests
BarTotal ==
    IF ParseDuration(cfg.RunDuration).d > 0
    THEN ParseDuration(cfg.RunDuration).d ELSE cfg.NumRequests

\* bar.Increment(): a bar never passes its total
Increment(b) == IF b < BarTotal THEN b + 1 ELSE b

\* rh.ProgressC <- struct{}{} meets the receive of the progress bar, which
\* goes on to bar.Increment()
AggProgress ==
    /\ Running /\ aggPc = "progress"
    /\ ProgressListening
    /\ pbPc' = "incr"
    /\ aggPc' = "recv"
    /\ UNCHANGED <<extVars, mainVars, startPc, wg, workers, ctx, ch, chClosed, badSend, responses,
                   results, published, doneClosed, bar, crashed>>

\* a receive that takes an empty channel for a closed one
ChanClosedAndDrained_EmptyIsClosed == ch = <<>>

\* the receive reports !ok: the channel is closed and drained
ChanClosedAndDrained == chClosed > 0 /\ ch = <<>>

\* the channel is found closed: accumulate the buffered responses, finalize
\* and print the results
AggFinalize ==
    /\ Running /\ aggPc = "recv"
    /\ ChanClosedAndDrained
    /\ results' = finalizeResponseStats(AccumulateAll(responses, results))
    /\ published' = published + 1
    /\ aggPc' = "finalized"
    /\ UNCHANGED <<extVars, mainVars, startPc, wg, workers, ctx, ch, chClosed, badSend, responses,
                   doneClosed, pbVars, crashed>>

\* Start returns: the deferred close(rh.DoneC) runs
AggReturn ==
    /\ Running /\ aggPc = "finalized"
    /\ doneClosed' = doneClosed + 1
    /\ aggPc' = "done"
    /\ UNCHANGED <<extVars, mainVars, startPc, wg, workers, ctx, ch, chClosed, badSend, responses,
                   results, published, pbVars, crashed>>

(***************************************************************************)
(* ResponseHandler.generateHistogram                                       *)
(***************************************************************************)
\* calcNumBinsSturgesMethod: int(math.Ceil(math.Log2(float64(n) + 1)))
calcNumBinsSturgesMethod(n) ==
    CHOOSE k \in 0..30 : 2^k >= n + 1 /\ (k = 0 \/ 2^(k - 1) < n + 1)

\* time.Duration(normFactor) * d in the wrapping arithmetic of durations; the
\* only product that wraps is the one with the initial minimum
MulDuration(normFactor, d) ==
    IF d = MaxDuration
    THEN IF normFactor % 2 = 0 THEN 0 - normFactor ELSE MaxDuration - (normFactor - 1)
    ELSE normFactor * d

\* the bins (i, numBins, dur) whose key float64(i) * (float64(dur) / float64(numBins))
\* is rounded below the integer i*dur/numBins (numBins <= 7, dur < 130)
FloatShort == {<<7, 7, 61>>, <<7, 7, 115>>, <<7, 7, 122>>}

\* float64(observation) <= float64(i) * binWidth, for binWidth = dur / numBins
ObsInBin(observation, i, numBins, dur) ==
    IF <<i, numBins, dur>> \in FloatShort
    THEN observation * numBins < i * dur
    ELSE observation * numBins <= i * dur

\* the bin an observation is counted in: the first whose key it does not
\* exceed, 0 when it exceeds them all
BinOf(observation, numBins, dur) ==
    LET fits == { i \in 1..numBins : ObsInBin(observation, i, numBins, dur) } IN
    IF fits = {} THEN 0
    ELSE IF dur = 0 THEN 1
    ELSE CHOOSE i \in fits : \A j \in fits : i <= j

\* the smallest and the largest of a non-empty set of counts
MinOf(counts) == CHOOSE c \in counts : \A d \in counts : c <= d
MaxOf(counts) == CHOOSE c \in counts : \A d \in counts : c >= d

\* ResponseHandler.generateHistogram: the map rh.histogram as the counts of
\* its regular bins (by the index of their key; the keys all coincide when
\* the bin width is 0) and the tail bin when there is one, with the returned
\* minBinCount and maxBinCount
generateHistogram(rr, normFactor) ==
    LET obs      == rr.TimingResults
        numBins  == calcNumBinsSturgesMethod(Len(obs))
        max      == rr.MaxRqstDuration
        normMax  == MulDuration(normFactor, rr.MinRqstDuration)
        dur      == IF normFactor > 1 /\ normMax < max THEN normMax ELSE max
        keys     == IF numBins = 0 THEN {} ELSE IF dur = 0 THEN {1} ELSE 1..numBins
        bins     == [i \in keys |->
                        Cardinality({ j \in 1..Len(obs) : BinOf(obs[j], numBins, dur) = i })]
        counts   == { bins[i] : i \in keys }
        maxBin   == IF \A i \in keys : bins[i] = 0 THEN 0 ELSE MaxOf(counts)
        minBin   == IF keys = {} THEN MaxInt32 ELSE MinOf(counts)
        hasTail  == normFactor > 1 /\ normMax < max
        tailBin  == Cardinality({ j \in 1..Len(obs) :
                                    numBins > 0 /\ ~ObsInBin(obs[j], numBins, numBins, dur) })
    IN [bins        |-> bins,
        tail        |-> IF hasTail THEN <<[key |-> max, count |-> tailBin]>> ELSE <<>>,
        minBinCount |-> IF hasTail /\ tailBin < minBin THEN tailBin ELSE minBin,
        maxBinCount |-> IF hasTail /\ tailBin > maxBin THEN tailBin ELSE maxBin]

(***************************************************************************)
(* startProgressBar                                                        *)
(***************************************************************************)
\* bar.Increment() after a receive from ProgressC, then back to the select
ProgressIncrement ==
    /\ Running /\ pbPc = "incr"
    /\ bar' = Increment(bar)
    /\ pbPc' = "loop"
    /\ UNCHANGED <<extVars, mainVars, startPc, wg, workers, ctx, ch, chClosed, badSend, aggVars, crashed>>

\* the ticker of a duration-limited run fires
ProgressTick ==
    /\ Running /\ pbPc = "loop"
    /\ ParseDuration(cfg.RunDuration).d > 0
    /\ bar' = Increment(bar)
    /\ UNCHANGED <<extVars, mainVars, startPc, wg, workers, ctx, ch, chClosed, badSend, aggVars, pbPc, crashed>>

\* DoneC is closed: the loop ends
ProgressDone ==
    /\ Running /\ pbPc = "loop"
    /\ doneClosed > 0
    /\ pbPc' = "done"
    /\ UNCHANGED <<extVars, mainVars, startPc, wg, workers, ctx, ch, chClosed, badSend, aggVars, bar, crashed>>

(***************************************************************************)
(* Specifications                                                          *)
(***************************************************************************)
WorkerIds == 1..Len(workers)

WorkerStep(w) ==
    \/ WorkerBegin(w)
    \/ WorkerDo(w)
    \/ WorkerDoReturn(w)
    \/ WorkerSend(w)
    \/ WorkerCtxDone(w)
    \/ WorkerWake(w)

Next ==
    \/ MainNewScheduler
    \/ MainStart
    \/ MainSignal
    \/ MainSignalWait
    \/ MainExit
    \/ DeadlineExpire
    \/ StartSpawn
    \/ StartClose
    \/ \E w \in WorkerIds : WorkerStep(w)
    \/ AggRecv
    \/ AggProgress
    \/ AggFinalize
    \/ AggReturn
    \/ ProgressIncrement
    \/ ProgressTick
    \/ ProgressDone

\* a whole run of the program
Init == InitOf(Configs(MaxConc, MaxNum, MaxEps, RunPcts, RunDurs))

Spec == Init /\ [][Next]_vars

\* a step of the program itself: of main, Scheduler.Start, a worker, the
\* aggregator or the progress bar on ProgressC and DoneC; a signal, the end of the
\* run duration and the ticker are left to the environment
ProgramStep ==
    \/ MainNewScheduler \/ MainStart \/ MainExit
    \/ StartSpawn \/ StartClose
    \/ \E w \in WorkerIds : WorkerStep(w)
    \/ AggRecv \/ AggProgress \/ AggFinalize \/ AggReturn
    \/ ProgressIncrement \/ ProgressDone

\* the runs limited by a number of requests: -numRqsts > 0 and no run duration
CountConfigs ==
    { c \in Configs(MaxConc, MaxNum, MaxEps, RunPcts, RunDurs) :
        c.NumRequests > 0 /\ ParseDuration(c.RunDuration).d = 0 }

InitCount == InitOf(CountConfigs)

\* the steps of a count-mode run: those of the program, and a signal
NextCount == ProgramStep \/ MainSignal \/ MainSignalWait

\* a count-mode run in which the program is scheduled: it does not stop while
\* one of its goroutines can take a step
SpecCount == InitCount /\ [][NextCount]_vars /\ WF_vars(ProgramStep)

\* the construction of the scheduler and the spawning of its workers, over
\* a wider range of configurations
InitSched == InitOf(Configs(SchedMaxConc, SchedMaxNum, SchedMaxEps, Pcts, RunDurStrings))

NextSched ==
    \/ MainNewScheduler
    \/ MainStart
    \/ StartSpawn

SpecSched == InitSched /\ [][NextSched]_vars


(***************************************************************************)
(* Scheduler.calcEPConfig applied on its own                               *)
(***************************************************************************)
\* largest concurrency of the schedulers calcEPConfig is applied to
CalcMaxConc == 25
\* their request rates and request counts
CalcCounts == {0, 1, 5, 25, 50, 99}
\* the weights of the endpoints
CalcPcts == {0, 20, 28, 30, 50, 56, 100}

\* the calls s.calcEPConfig(ep)
CalcCalls ==
    { [fn |-> "calcEPConfig",
       s  |-> [concurrency |-> c, rqstRate |-> r, numRqsts |-> n],
       ep |-> Endpoint(1, p)] :
        c \in 0..CalcMaxConc, r \in CalcCounts, n \in CalcCounts, p \in CalcPcts }

\* s.calcEPConfig(ep) returns
CallCalcEPConfig ==
    /\ call.fn = "calcEPConfig" /\ ret = <<>>
    /\ ret' = <<calcEPConfig(call.s, call.ep)>>
    /\ UNCHANGED <<runVars, auxVars, actualNumRqstrs, call>>

InitCalc == InitCall(CalcCalls)
SpecCalc == InitCalc /\ [][CallCalcEPConfig]_vars

(***************************************************************************)
(* Scheduler.Start driving the MockRequestor of the scheduler tests        *)
(***************************************************************************)
\* largest concurrency, NumRequests and number of endpoints of the
\* configurations run against the MockRequestor
MockMaxConc == 2
MockMaxNum == 5
MockMaxEps == 2

\* MockRequestor.ProcessRqst adds numRqsts to actualNumRqstrs and returns; the
\* goroutine then calls wg.Done()
MockProcessRqst(w) ==
    /\ Running /\ workers[w].pc = "new"
    /\ actualNumRqstrs' = actualNumRqstrs + workers[w].numRqsts
    /\ Return(w, workers[w])
    /\ UNCHANGED <<mainVars, startPc, ctx, ch, chClosed, badSend, aggVars, pbVars, call, ret,
                   auxVars>>

InitMock == InitOf(Configs(MockMaxConc, MockMaxNum, MockMaxEps, Pcts, RunDurs))
NextMock ==
    \/ MainNewScheduler
    \/ MainStart
    \/ StartSpawn
    \/ \E w \in WorkerIds : MockProcessRqst(w)
    \/ StartClose
SpecMock == InitMock /\ [][NextMock]_vars

(***************************************************************************)
(* Requestor.ProcessRqst called on its own, as the requestor tests do      *)
(***************************************************************************)
\* largest numRqsts given to ProcessRqst
RqstrMaxNum == 3

\* the endpoints given to ProcessRqst: two URLs, two methods, and endpoints
\* without a URL or without a method
RqstrEndpoints ==
    { Endpoint(i, 100) : i \in 1..3 }
        \cup { [URL |-> "", Method |-> "GET", RqstPercent |-> 100],
               [URL |-> "u1", Method |-> "", RqstPercent |-> 100] }

\* the run durations of the requestor tests, in seconds: none, and one that
\* elapses (the 10 ms of TestTimeout)
RqstrRunDurs == {0, 1}

\* the calls of ProcessRqst for an endpoint, a number of requests and a rate,
\* with the run duration that the Requestor's context carries
RqstrCalls ==
    { [fn |-> "ProcessRqst", ep |-> e, numRqsts |-> n, runDur |-> d, rqstRate |-> r] :
        e \in RqstrEndpoints, n \in 0..RqstrMaxNum, d \in RqstrRunDurs, r \in Rates }

\* a Requestor whose response channel has room for one Response
RqstrConfig == [IdleConfig EXCEPT !.MaxConcurrentRqsts = 1]

\* wg.Add(1) and the goroutine that calls ProcessRqst
CallProcessRqst ==
    /\ Running /\ call.fn = "ProcessRqst" /\ workers = <<>> /\ ret = <<>>
    /\ workers' = <<NewWorker(call.ep, call.numRqsts, call.rqstRate)>>
    /\ wg' = 1
    /\ ret' = <<"called">>
    /\ UNCHANGED <<mainVars, startPc, ctx, ch, chClosed, badSend, aggVars, pbVars, crashed,
                   actualNumRqstrs, call, auxVars>>

\* the cancel() of TestCtxCancel
TestCancel ==
    /\ Running /\ call.fn = "ProcessRqst" /\ ctx = "active"
    /\ ctx' = "canceled"
    /\ UNCHANGED <<mainVars, startPc, wg, workers, ch, chClosed, badSend, aggVars, pbVars,
                   crashed, extVars>>

\* the run duration of the call elapses: the Requestor's context is done,
\* with the error of a deadline
RunDurationElapses ==
    /\ Running /\ call.fn = "ProcessRqst" /\ call.runDur > 0 /\ ctx = "active"
    /\ ctx' = "deadline"
    /\ UNCHANGED <<mainVars, startPc, wg, workers, ch, chClosed, badSend, aggVars, pbVars,
                   crashed, extVars>>

InitRqstr == InitState({RqstrConfig}, RqstrCalls)
NextRqstr ==
    \/ CallProcessRqst
    \/ TestCancel
    \/ RunDurationElapses
    \/ \E w \in WorkerIds : WorkerStep(w)
    \/ AggRecv
SpecRqstr == InitRqstr /\ [][NextRqstr]_vars
\* the goroutine that runs ProcessRqst is scheduled as long as it can take a step
SpecRqstrFair == SpecRqstr /\ WF_vars(\E w \in WorkerIds : WorkerStep(w))

(***************************************************************************)
(* The statistics and the histogram of a given list of observations        *)
(***************************************************************************)
\* longest list of observations enumerated in full, and their largest duration
HistMaxLen == 3
HistMaxDur == 4
\* length of the run of equal observations that precedes the slowest one in
\* the long lists
HistPad == 63
\* the NormFactor values: 0 is no normalization
NormFactors == {0, 2, 3}

\* n observations of duration d
Pad(d, n) == [j \in 1..n |-> d]

\* the lists of observations (request durations, in nanoseconds)
HistObservations ==
    UNION { [1..n -> 0..HistMaxDur] : n \in 0..HistMaxLen }
        \cup { Pad(lo, HistPad) \o <<hi>> : lo \in {1, 30}, hi \in 60..62 }
        \cup { Pad(61, HistPad - 1) \o <<122, 123>> }

\* the calls of generateHistogram on the statistics of a list of observations
HistCalls ==
    { [fn |-> "generateHistogram", obs |-> o, NormFactor |-> nf] :
        o \in HistObservations, nf \in NormFactors }

\* the Responses carrying the observations
ObsResponses(obs) ==
    [j \in 1..Len(obs) |->
        [HTTPStatus |-> 200, URL |-> EpURL(1), Method |-> EpMethod(1), RequestDuration |-> obs[j]]]

\* ResponseHandler.Start finds the channel closed: it accumulates the
\* Responses, finalizes, and generates the histogram
CallGenerateHistogram ==
    /\ call.fn = "generateHistogram" /\ ret = <<>>
    /\ LET rr == finalizeResponseStats(AccumulateAll(ObsResponses(call.obs), InitResults))
       IN ret' = <<[results |-> rr, hist |-> generateHistogram(rr, call.NormFactor)]>>
    /\ UNCHANGED <<runVars, auxVars, actualNumRqstrs, call>>

InitHist == InitCall(HistCalls)
SpecHist == InitHist /\ [][CallGenerateHistogram]_vars

(***************************************************************************)
(* The statistics of a given list of Responses                             *)
(***************************************************************************)
\* longest list of Responses accumulated
AggMaxLen == 3
\* the Responses: three (URL, method) pairs and two durations, answered with
\* 404, and with 200 too for the first pair
AggResponses ==
    { r \in { [HTTPStatus |-> st, URL |-> EpURL(i), Method |-> EpMethod(i),
               RequestDuration |-> dur] : st \in {200, 404}, i \in 1..3, dur \in {1, 4} } :
        r.HTTPStatus = 404 \/ (r.URL = EpURL(1) /\ r.Method = EpMethod(1)) }

\* the aggregator runs on a list of Responses
AggCalls ==
    { [fn |-> "accumulateResponseStats", resps |-> r, NormFactor |-> nf] :
        r \in UNION { [1..n -> AggResponses] : n \in 0..AggMaxLen }, nf \in {0, 2} }

\* what ResponseHandler.Start computes once the channel is closed: the
\* accumulated statistics, the finalized ones, and the histogram
Aggregate(resps, normFactor) ==
    LET acc == AccumulateAll(resps, InitResults)
        rr  == finalizeResponseStats(acc)
    IN [accumulated |-> acc, results |-> rr, hist |-> generateHistogram(rr, normFactor)]

\* ResponseHandler.Start finds the channel closed after these Responses
CallAccumulateResponseStats ==
    /\ call.fn = "accumulateResponseStats" /\ ret = <<>>
    /\ ret' = <<Aggregate(call.resps, call.NormFactor)>>
    /\ UNCHANGED <<runVars, auxVars, actualNumRqstrs, call>>

InitAgg == InitCall(AggCalls)
SpecAgg == InitAgg /\ [][CallAccumulateResponseStats]_vars

(***************************************************************************)
(* The percentiles of the report                                           *)
(***************************************************************************)
\* sort.Slice with the comparison results[i] < results[j]; equal durations
\* are the same value, so the unstable sort has one outcome
\* the list left as it came
SortDurations_Unsorted(durations) == durations

SortDurations(durations) == SortSeq(durations, LAMBDA a, b : a < b)

\* the index rounded down instead of up
PercentileIndex_Floor(n, percentile) == ((n - 1) * percentile) \div 100

\* int(math.Ceil(math.Ceil(float64((len(results)-1)*percentile)) / 100)): the
\* product is an int and its conversion is exact, so the inner Ceil leaves it
\* alone; the quotient of the float64 division is exact for a multiple of 100
\* and otherwise at least 1/100 away from a whole number, so the outer Ceil
\* is the ceiling of the exact quotient
PercentileIndex(n, percentile) == ((n - 1) * percentile + 99) \div 100

calcPMin(durations) ==
    IF Len(durations) = 0 THEN 0 ELSE SortDurations(durations)[1]

\* the upper of the two central elements instead of their average
calcPMedian_UpperMiddle(durations) ==
    IF Len(durations) = 0 THEN 0 ELSE SortSeq(durations, LAMBDA a, b : a < b)[Len(durations) \div 2 + 1]

calcPMedian(durations) ==
    IF Len(durations) = 0 THEN 0
    ELSE LET sorted  == SortDurations(durations)
             mNumber == Len(durations) \div 2
         IN IF Len(durations) % 2 # 0 THEN sorted[mNumber + 1]
            ELSE (sorted[mNumber] + sorted[mNumber + 1]) \div 2

\* the index taken as n * percentile / 100, wrapped around at the end of the
\* list
calcPercentiles_WrapIndex(percentile, durations) ==
    IF Len(durations) = 0 THEN 0
    ELSE IF percentile = 0 THEN calcPMin(durations)
    ELSE IF percentile = 50 THEN calcPMedian(durations)
    ELSE SortDurations(durations)[(((Len(durations) * percentile) \div 100) % Len(durations)) + 1]

\* Go slices are indexed from 0, sequences from 1
calcPercentiles(percentile, durations) ==
    IF Len(durations) = 0 THEN 0
    ELSE IF percentile = 0 THEN calcPMin(durations)
    ELSE IF percentile = 50 THEN calcPMedian(durations)
    ELSE SortDurations(durations)[PercentileIndex(Len(durations), percentile) + 1]

Millisecond == 1000000
\* the percentiles the report asks for
Percentiles == {0, 50, 75, 90, 95, 99}
\* longest list of durations enumerated, and the longest of its durations (ns)
PctMaxLen == 4
PctMaxDur == 3
\* numVals durations from startVal in steps of stepVal, as TestPercentileCalcs
\* builds them
Steps(startVal, stepVal, numVals) ==
    [i \in 1..numVals |-> startVal + (i - 1) * stepVal]
\* the lists of TestPercentileCalcs of 2, 5 and 100 durations, the last one
\* backwards too
TestDurations ==
    { Steps(100 * Millisecond, 900 * Millisecond, 2),
      Steps(100 * Millisecond, 100 * Millisecond, 5),
      Steps(Millisecond, Millisecond, 100),
      [i \in 1..100 |-> (101 - i) * Millisecond] }
\* the lists of durations whose percentiles are asked for
PctDurations == UNION { [1..n -> 1..PctMaxDur] : n \in 0..PctMaxLen } \cup TestDurations
\* calcPercentiles as the report calls it and for every percentile from 1 to
\* 100, calcPMedian and calcPMin as TestPercentileCalcs calls them
PctCalls ==
    { [fn |-> "calcPercentiles", percentile |-> p, results |-> r] :
        p \in Percentiles \cup (1..100), r \in PctDurations }
      \cup { [fn |-> f, results |-> r] : f \in {"calcPMedian", "calcPMin"}, r \in PctDurations }

\* formatPercentile asks for a percentile of the request timings
CallCalcPercentiles ==
    /\ call.fn = "calcPercentiles" /\ ret = <<>>
    /\ ret' = <<calcPercentiles(call.percentile, call.results)>>
    /\ UNCHANGED <<runVars, auxVars, actualNumRqstrs, call>>

CallCalcPMedian ==
    /\ call.fn = "calcPMedian" /\ ret = <<>>
    /\ ret' = <<calcPMedian(call.results)>>
    /\ UNCHANGED <<runVars, auxVars, actualNumRqstrs, call>>

CallCalcPMin ==
    /\ call.fn = "calcPMin" /\ ret = <<>>
    /\ ret' = <<calcPMin(call.results)>>
    /\ UNCHANGED <<runVars, auxVars, actualNumRqstrs, call>>

InitPct == InitCall(PctCalls)
NextPct == CallCalcPercentiles \/ CallCalcPMedian \/ CallCalcPMin
SpecPct == InitPct /\ [][NextPct]_vars

(***************************************************************************)
(* The queue-based Requestor, which sends Requests over schedC             *)
(***************************************************************************)
\* delete(m, k) on a Go map
MapDel(m, k) == [x \in (DOMAIN m) \ {k} |-> m[x]]

\* the endpoints of TestRequestor, each with a URL of its own
QueueURL(i) == CASE i = 1 -> "url1" [] i = 2 -> "url2" [] OTHER -> "url3"
QueueEndpoint(i, pct) == [URL |-> QueueURL(i), Method |-> "GET", RqstPercent |-> pct]

\* the orders sort.Slice may leave eps in: descending by RqstPercent, endpoints
\* of equal RqstPercent in any order (the sort is not stable)
SortedByPercent(eps) ==
    { [j \in 1..Len(eps) |-> eps[p[j]]] : p \in
        { q \in Permutations(1..Len(eps)) :
            \A j \in 1..(Len(eps) - 1) : eps[q[j]].RqstPercent >= eps[q[j + 1]].RqstPercent } }

\* the rqstItem of an endpoint; 100 / ep.RqstPercent is Go's integer division
RqstItem(ep) == [freq |-> 100 \div ep.RqstPercent, ep |-> ep]

\* NewRequestor: the Requestors it may return, an error, or the panic of the
\* division by a RqstPercent of 0
NewRequestor(rate, runDur, numRqsts, eps) ==
    LET dur == ParseDuration(runDur) IN
    IF ~dur.ok THEN {[pc |-> "error", err |-> "parse"]}
    ELSE IF numRqsts > 0 /\ dur.d > 0 THEN {[pc |-> "error", err |-> "exclusive"]}
    ELSE IF \E j \in 1..Len(eps) : eps[j].RqstPercent = 0 THEN {[pc |-> "panic"]}
    ELSE IF SumPct(eps) # 100 THEN {[pc |-> "error", err |-> "pctsum"]}
    ELSE { [pc             |-> "loop",
            rate           |-> rate,
            runDur         |-> dur.d,
            numRqsts       |-> numRqsts,
            endpoints      |-> sorted,
            rqstSched      |-> MapPut(EmptyMap, 0, [j \in 1..Len(sorted) |-> RqstItem(sorted[j])]),
            i              |-> 0,
            rqstsToProcess |-> numRqsts,
            nextRqst       |-> RqstItem(sorted[1])] : sorted \in SortedByPercent(eps) }

\* Requestor.getNextRqst: whether a request is queued at the iteration, the
\* request, and the queue afterwards
getNextRqst(r, iter) ==
    LET idx == iter % r.numRqsts IN
    IF idx \notin DOMAIN r.rqstSched THEN [ok |-> FALSE, rqstSched |-> r.rqstSched]
    ELSE LET candidateRqsts == r.rqstSched[idx]
             nextRqst == candidateRqsts[1]
             s1 == IF Len(candidateRqsts) > 1
                   THEN MapPut(r.rqstSched, (idx + 1) % r.numRqsts, Tail(candidateRqsts))
                   ELSE r.rqstSched
             s2 == MapDel(s1, idx)
             nextSchedIteration == (idx + nextRqst.freq) % r.numRqsts
         IN [ok |-> TRUE, nextRqst |-> nextRqst,
             rqstSched |-> MapPut(s2, nextSchedIteration,
                                  Append(MapGet(s2, nextSchedIteration, <<>>), nextRqst))]

\* most requests of a run, most endpoints, and the RqstPercents
QueueMaxNum == 10
QueueMaxEps == 3
QueuePcts == {0, 20, 30, 40, 50, 60, 80, 100}
\* lists of one or two endpoints, and the lists of three whose RqstPercents
\* add up to 100
QueueEndpointLists ==
    { eps \in UNION { [1..n -> QueuePcts] : n \in 1..QueueMaxEps } :
        Len(eps) <= 2 \/ eps[1] + eps[2] + eps[3] = 100 }
QueueCalls ==
    { [fn |-> "NewRequestor", rate |-> 100, runDur |-> d, numRqsts |-> n,
       eps |-> [j \in 1..Len(pcts) |-> QueueEndpoint(j, pcts[j])]] :
        d \in {"0s", "1s", "1"}, n \in 0..QueueMaxNum, pcts \in QueueEndpointLists }

\* TestRequestor creates the Requestor
CallNewRequestor ==
    /\ call.fn = "NewRequestor" /\ rqstor.pc = "none"
    /\ rqstor' \in NewRequestor(call.rate, call.runDur, call.numRqsts, call.eps)
    /\ UNCHANGED <<runVars, actualNumRqstrs, call, ret, rqstDist, spawn>>

\* a turn that finds nothing queued counted as a request
StartGetNextRqst_CountsHoles ==
    /\ rqstor.pc = "loop"
    /\ IF rqstor.numRqsts = 0 THEN rqstor' = [rqstor EXCEPT !.pc = "panic"]
       ELSE IF rqstor.i >= rqstor.rqstsToProcess THEN rqstor' = [rqstor EXCEPT !.pc = "closing"]
       ELSE LET next == getNextRqst(rqstor, rqstor.i % rqstor.numRqsts) IN
            IF ~next.ok
            THEN rqstor' = [rqstor EXCEPT !.i = rqstor.i + 1]
            ELSE rqstor' = [rqstor EXCEPT !.pc = "send", !.nextRqst = next.nextRqst,
                                          !.rqstSched = next.rqstSched]
    /\ UNCHANGED <<runVars, actualNumRqstrs, call, ret, rqstDist, spawn>>

\* Requestor.Start, one turn of its loop up to the select: i % r.numRqsts
\* panics when numRqsts is 0; in count mode the loop ends when i reaches
\* rqstsToProcess, and a turn that finds nothing queued raises that limit
StartGetNextRqst ==
    /\ rqstor.pc = "loop"
    /\ IF rqstor.numRqsts = 0 THEN rqstor' = [rqstor EXCEPT !.pc = "panic"]
       ELSE IF rqstor.i >= rqstor.rqstsToProcess THEN rqstor' = [rqstor EXCEPT !.pc = "closing"]
       ELSE LET next == getNextRqst(rqstor, rqstor.i % rqstor.numRqsts) IN
            IF ~next.ok
            THEN rqstor' = [rqstor EXCEPT !.rqstsToProcess = rqstor.rqstsToProcess + 1,
                                          !.i = rqstor.i + 1]
            ELSE rqstor' = [rqstor EXCEPT !.pc = "send", !.nextRqst = next.nextRqst,
                                          !.rqstSched = next.rqstSched]
    /\ UNCHANGED <<runVars, actualNumRqstrs, call, ret, rqstDist, spawn>>

\* the send on the unbuffered schedC meets the receive of the test's
\* scheduler, which counts the Request under its URL
StartSendRqst ==
    /\ rqstor.pc = "send"
    /\ rqstDist' = MapPut(rqstDist, rqstor.nextRqst.ep.URL,
                          MapGet(rqstDist, rqstor.nextRqst.ep.URL, 0) + 1)
    /\ rqstor' = [rqstor EXCEPT !.pc = "loop", !.i = rqstor.i + 1]
    /\ UNCHANGED <<runVars, actualNumRqstrs, call, ret, spawn>>

\* after the loop Start sleeps and closes doneC
StartCloseDone ==
    /\ rqstor.pc = "closing"
    /\ rqstor' = [rqstor EXCEPT !.pc = "done"]
    /\ UNCHANGED <<runVars, actualNumRqstrs, call, ret, rqstDist, spawn>>

InitQueue == InitCall(QueueCalls)
NextQueue == CallNewRequestor \/ StartGetNextRqst \/ StartSendRqst \/ StartCloseDone
SpecQueue == InitQueue /\ [][NextQueue]_vars
\* the goroutine of Start keeps running and the test's scheduler keeps
\* receiving from schedC
SpecQueueFair == SpecQueue /\ WF_vars(NextQueue)

(***************************************************************************)
(* Scheduler.Start turn by turn: what each goroutine finds in the          *)
(* variables its closure captured                                          *)
(***************************************************************************)
\* most goroutines, requests and endpoints of the Schedulers started
SpawnMaxConc == 4
SpawnMaxNum == 4
SpawnMaxEps == 2

\* the Schedulers NewScheduler returns for the configurations it accepts
SpawnCalls ==
    { [fn |-> "Start", s |-> NewScheduler(c).sched] :
        c \in { x \in Configs(SpawnMaxConc, SpawnMaxNum, SpawnMaxEps, Pcts, RunDurs) :
                  LET n == NewScheduler(x) IN ~n.panic /\ n.err = "none" } }

\* one variable for all the turns of the loop
LoopVarsOf_Shared(k) == 1

\* the variables a goroutine of the k-th turn of the outer loop captures:
\* ep := ep and the := of the results of calcEPConfig declare them anew at
\* every turn
LoopVarsOf(k) == k

\* the goroutines spawned so far
SpawnIds == IF spawn.pc = "none" THEN {} ELSE 1..Len(spawn.goroutines)

\* go s.Start()
StartEnter ==
    /\ call.fn = "Start" /\ spawn.pc = "none"
    /\ spawn' = [pc |-> "outer", k |-> 0, i |-> 0, loopVars |-> EmptyMap, goroutines |-> <<>>]
    /\ UNCHANGED <<runVars, queueVars, actualNumRqstrs, call, ret>>

\* for _, ep := range s.endpoints: the next endpoint and its calcEPConfig, or
\* the end of the loop
StartNextEndpoint ==
    /\ spawn.pc = "outer"
    /\ IF spawn.k < Len(call.s.endpoints)
       THEN LET ep == call.s.endpoints[spawn.k + 1]
                c  == calcEPConfig(call.s, ep)
            IN spawn' = [spawn EXCEPT
                   !.pc = "inner", !.k = spawn.k + 1, !.i = 0,
                   !.loopVars = MapPut(spawn.loopVars, LoopVarsOf(spawn.k + 1),
                        [ep                   |-> ep,
                         numRqstsPerGoroutine |-> c.numRqstsPerGoroutine,
                         epConcurrency        |-> c.numEPGoroutines,
                         goroutineRqstRate    |-> c.epGoroutineRqstRate])]
       ELSE spawn' = [spawn EXCEPT !.pc = "wait"]
    /\ UNCHANGED <<runVars, queueVars, actualNumRqstrs, call, ret>>

\* for i := 0; i < epConcurrency; i++: wg.Add(1) and the go statement
StartGo ==
    /\ spawn.pc = "inner"
    /\ IF spawn.i < spawn.loopVars[LoopVarsOf(spawn.k)].epConcurrency
       THEN /\ wg' = wg + 1
            /\ spawn' = [spawn EXCEPT !.i = spawn.i + 1,
                   !.goroutines = Append(spawn.goroutines,
                        [turn |-> spawn.k, captured |-> LoopVarsOf(spawn.k), pc |-> "spawned"])]
       ELSE /\ spawn' = [spawn EXCEPT !.pc = "outer"]
            /\ UNCHANGED wg
    /\ UNCHANGED <<mainVars, startPc, workers, ctx, ch, chClosed, badSend, aggVars, pbVars,
                   crashed, queueVars, actualNumRqstrs, call, ret>>

\* a goroutine calls s.rqstr.ProcessRqst with what its captured variables
\* hold when it runs; MockRequestor adds numRqsts to actualNumRqstrs
GoProcessRqst(g) ==
    /\ g \in SpawnIds
    /\ spawn.goroutines[g].pc = "spawned"
    /\ LET v == spawn.loopVars[spawn.goroutines[g].captured] IN
         /\ spawn' = [spawn EXCEPT !.goroutines[g] =
                [turn |-> spawn.goroutines[g].turn, captured |-> spawn.goroutines[g].captured,
                 pc |-> "called", during |-> spawn.k,
                 args |-> [ep |-> v.ep, numRqsts |-> v.numRqstsPerGoroutine,
                           runDur |-> call.s.runDur, rqstRate |-> v.goroutineRqstRate]]]
         /\ actualNumRqstrs' = actualNumRqstrs + v.numRqstsPerGoroutine
    /\ UNCHANGED <<runVars, queueVars, call, ret>>

\* wg.Done()
GoDone(g) ==
    /\ g \in SpawnIds
    /\ spawn.goroutines[g].pc = "called"
    /\ spawn' = [spawn EXCEPT !.goroutines[g].pc = "done"]
    /\ wg' = wg - 1
    /\ UNCHANGED <<mainVars, startPc, workers, ctx, ch, chClosed, badSend, aggVars, pbVars,
                   crashed, queueVars, actualNumRqstrs, call, ret>>

\* wg.Wait() and close(s.rqstr.ResponseChan())
StartWaitClose ==
    /\ spawn.pc = "wait" /\ wg = 0
    /\ spawn' = [spawn EXCEPT !.pc = "closed"]
    /\ chClosed' = chClosed + 1
    /\ UNCHANGED <<mainVars, startPc, wg, workers, ctx, ch, badSend, aggVars, pbVars,
                   crashed, queueVars, actualNumRqstrs, call, ret>>

InitSpawn == InitCall(SpawnCalls)
NextSpawn ==
    \/ StartEnter
    \/ StartNextEndpoint
    \/ StartGo
    \/ \E g \in SpawnIds : GoProcessRqst(g)
    \/ \E g \in SpawnIds : GoDone(g)
    \/ StartWaitClose
SpecSpawn == InitSpawn /\ [][NextSpawn]_vars

(***************************************************************************)
(* ResponseHandler.Start from the first Response to the report             *)
(***************************************************************************)
ReportMaxLen == 2
ReportMaxDur == 2
\* the capacity of the response channel the Responses are sent on
ReportChanCap == 1
\* the OutputType of the ResponseHandler
OutputTypes == {"Text", "JSON"}

\* ResponseHandler.Start is run on its own: the Responses carrying the
\* observations are sent on ResponseC, which is then closed
ReportCalls ==
    { [fn |-> "Start", obs |-> o, NormFactor |-> nf, OutputType |-> ot] :
        o \in UNION { [1..n -> 1..ReportMaxDur] : n \in 0..ReportMaxLen },
        nf \in NormFactors, ot \in OutputTypes }

\* ResponseHandler.generateHistogramString(min, max) on the histogram h: the
\* length of the bar of every bin, in the order of the keys,
\* barLen = ((cnt * 100) + (max / 2)) / max, an integer division that panics
\* when max is 0 and there is a bin
generateHistogramString(h) ==
    LET cnts == [j \in 1..Cardinality(DOMAIN h.bins) |-> h.bins[j]]
                    \o [j \in 1..Len(h.tail) |-> h.tail[j].count]
    IN IF cnts # <<>> /\ h.maxBinCount = 0
       THEN [panic |-> TRUE, bars |-> <<>>]
       ELSE [panic |-> FALSE,
             bars  |-> [j \in 1..Len(cnts) |->
                          (cnts[j] * 100 + h.maxBinCount \div 2) \div h.maxBinCount]]

\* a Response is sent on ResponseC
ReportSend ==
    /\ call.fn = "Start" /\ chClosed = 0
    /\ Len(responses) + Len(ch) < Len(call.obs)
    /\ Len(ch) < ReportChanCap
    /\ ch' = Append(ch, ObsResponses(call.obs)[Len(responses) + Len(ch) + 1])
    /\ UNCHANGED <<extVars, mainVars, startPc, wg, workers, ctx, chClosed, badSend, aggVars,
                   pbVars, crashed>>

\* every Response has been sent: ResponseC is closed
ReportClose ==
    /\ call.fn = "Start" /\ chClosed = 0
    /\ Len(responses) + Len(ch) = Len(call.obs)
    /\ chClosed' = 1
    /\ UNCHANGED <<extVars, mainVars, startPc, wg, workers, ctx, ch, badSend, aggVars,
                   pbVars, crashed>>

\* the channel is found closed: the buffered Responses are accumulated and
\* the statistics finalized
ReportFinalize ==
    /\ call.fn = "Start" /\ Running /\ aggPc = "recv"
    /\ ChanClosedAndDrained
    /\ results' = finalizeResponseStats(AccumulateAll(responses, results))
    /\ aggPc' = IF call.OutputType = "Text" THEN "histogram" ELSE "json"
    /\ UNCHANGED <<extVars, mainVars, startPc, wg, workers, ctx, ch, chClosed, badSend, responses,
                   published, doneClosed, pbVars, crashed>>

\* the text report: the summary and the latencies are printed and the
\* histogram is generated
ReportHistogram ==
    /\ call.fn = "Start" /\ Running /\ aggPc = "histogram"
    /\ ret' = <<generateHistogram(results, call.NormFactor)>>
    /\ aggPc' = "render"
    /\ UNCHANGED <<actualNumRqstrs, call, auxVars, mainVars, startPc, wg, workers, ctx, ch,
                   chClosed, badSend, responses, results, published, doneClosed, pbVars, crashed>>

\* the text report: the histogram is rendered and the rest of the report
\* printed; a panic of the rendering runs the deferred close(rh.DoneC) and
\* ends the process
ReportRender ==
    /\ call.fn = "Start" /\ Running /\ aggPc = "render"
    /\ LET r == generateHistogramString(ret[1]) IN
        /\ ret' = Append(ret, r)
        /\ IF r.panic
           THEN /\ crashed' = TRUE
                /\ aggPc' = "panicked"
                /\ doneClosed' = doneClosed + 1
                /\ published' = published
           ELSE /\ published' = published + 1
                /\ aggPc' = "finalized"
                /\ UNCHANGED <<crashed, doneClosed>>
    /\ UNCHANGED <<actualNumRqstrs, call, auxVars, mainVars, startPc, wg, workers, ctx, ch,
                   chClosed, badSend, responses, results, pbVars>>

\* the JSON report: the results are marshalled and printed
ReportJSON ==
    /\ call.fn = "Start" /\ Running /\ aggPc = "json"
    /\ published' = published + 1
    /\ aggPc' = "finalized"
    /\ UNCHANGED <<extVars, mainVars, startPc, wg, workers, ctx, ch, chClosed, badSend, responses,
                   results, doneClosed, pbVars, crashed>>

InitReport == InitCall(ReportCalls)
NextReport ==
    \/ ReportSend
    \/ ReportClose
    \/ AggRecv
    \/ ReportFinalize
    \/ ReportHistogram
    \/ ReportRender
    \/ ReportJSON
    \/ AggReturn
SpecReport == InitReport /\ [][NextReport]_vars

(***************************************************************************)
(* Properties                                                              *)
(***************************************************************************)
AllReturned == \A w \in WorkerIds : workers[w].pc = "returned"

RECURSIVE SumSent(_)
SumSent(ws) == IF ws = <<>> THEN 0 ELSE Head(ws).sent + SumSent(Tail(ws))

\* the number of Responses the workers have sent on the response channel
TotalSent == SumSent(workers)

\* NewScheduler has been called
Constructed == mainPc # "config" \/ crashed

\* the process has stopped: main returned, log.Fatal, or a panic
Stopped == ~Running

C2_EveryResponseCountedOnce ==
    published > 0 =>
        /\ results.TotalRqsts = TotalSent
        /\ Len(results.TimingResults) = TotalSent

\* C2 witness: results published for a run in which two workers sent Responses
C2_Witness ==
    /\ published > 0
    /\ TotalSent >= 2
    /\ \E v, w \in WorkerIds : v # w /\ workers[v].sent > 0 /\ workers[w].sent > 0

C4_FailedWorkerReturns ==
    \A w \in WorkerIds :
        workers[w].err \in {"timeout", "neterr"} =>
            /\ workers[w].pc = "returned"
            /\ workers[w].issued = workers[w].succeeded + 1
            /\ workers[w].sent = workers[w].succeeded

\* C5: when a run without cancellation has stopped, every worker none of whose
\* requests failed has issued its full allocation and returned, Start has
\* closed the response channel and the aggregator has published the results,
\* whatever failures the other workers met.
C5_FailureIsolated ==
    (Stopped /\ startPc # "idle" /\ ctx = "active") =>
        /\ \A w \in WorkerIds :
              workers[w].err = "none" =>
                  workers[w].pc = "returned" /\ workers[w].i = workers[w].numRqsts
        /\ startPc = "done" /\ chClosed = 1
        /\ published = 1

\* C6 (as claimed): no worker sends a Response once the cancellation signal
\* has been raised.
C6_NoResponseAfterCancel == \A w \in WorkerIds : workers[w].late = 0

\* C6 (amended): a worker whose select takes the cancellation branch returns
\* without sending, and no worker sends more than one Response after the
\* cancellation signal has been raised.
C6_AtMostOneLateResponse ==
    [][ /\ \A w \in 1..Len(workers') : workers'[w].late <= 1
        /\ \A w \in WorkerIds :
              (workers[w].pc = "select" /\ workers'[w].pc = "returned") =>
                  (ch' = ch /\ workers'[w].sent = workers[w].sent) ]_vars

\* C6 witness: a worker has sent the Response of its iteration after the
\* cancellation was raised, and another has left its select without sending
C6_Witness ==
    /\ ctx = "canceled"
    /\ \E w \in WorkerIds : workers[w].late = 1
    /\ \E w \in WorkerIds :
          /\ workers[w].pc = "returned" /\ workers[w].err = "none"
          /\ workers[w].sent < workers[w].succeeded

\* C7: when a run in which cancellation was signalled (and no request failed
\* by itself) has stopped, every worker has returned, Start has returned
\* and closed the channel once, and the aggregator has finalized and closed
\* DoneC.
C7_CancelledRunCompletes ==
    (/\ Stopped /\ startPc # "idle" /\ ctx = "canceled"
     /\ \A w \in WorkerIds : workers[w].err \in {"none", "canceled"}) =>
        /\ AllReturned
        /\ startPc = "done" /\ chClosed = 1
        /\ aggPc = "done" /\ published = 1 /\ doneClosed = 1

\* the failure conditions of NewScheduler as C8 lists them, for the parsed
\* run duration d
ClaimedInvalid(c, d) ==
    \/ (c.NumRequests > 0 /\ d > 0)
    \/ (d = 0 /\ c.NumRequests < c.MaxConcurrentRqsts)
    \/ (d = 0 /\ Len(c.Endpoints) > c.NumRequests)
    \/ (Len(c.Endpoints) > 0 /\ c.MaxConcurrentRqsts % Len(c.Endpoints) # 0)
    \/ SumPct(c.Endpoints) # 100

\* C8: for a run duration that parses, NewScheduler returns an error and no
\* Scheduler exactly when one of the five listed conditions holds; otherwise
\* it returns a Scheduler holding the given values; on failure no worker is
\* started and the response channel is untouched.
C8_ErrorIffListedCondition ==
    (Constructed /\ ParseDuration(cfg.RunDuration).ok) =>
        LET d == ParseDuration(cfg.RunDuration).d IN
        IF ClaimedInvalid(cfg, d)
        THEN /\ ~crashed /\ schedErr # "none" /\ sched = NoSched
             /\ workers = <<>> /\ ch = <<>> /\ chClosed = 0
        ELSE /\ ~crashed /\ schedErr = "none"
             /\ sched = [valid       |-> TRUE,
                         concurrency |-> cfg.MaxConcurrentRqsts,
                         rqstRate    |-> cfg.RqstRate,
                         runDur      |-> d,
                         numRqsts    |-> cfg.NumRequests,
                         endpoints   |-> cfg.Endpoints]

\* C9: for every endpoint list, the empty one included, whose weights do not
\* sum to 100, NewScheduler returns an error and no Scheduler, and does not
\* panic.
C9_BadWeightSumIsError ==
    (Constructed /\ SumPct(cfg.Endpoints) # 100) =>
        (~crashed /\ schedErr # "none" /\ sched = NoSched)

RECURSIVE SumGoroutines(_, _)
SumGoroutines(s, k) ==
    IF k > Len(s.endpoints) THEN 0
    ELSE CeilPct(s.concurrency, s.endpoints[k].RqstPercent) + SumGoroutines(s, k + 1)

\* C10: a configuration whose concurrency is at least its number of endpoints
\* and that satisfies the other rules is accepted, and runs with
\* ceil(concurrency*pct/100) workers per endpoint (3 endpoints at concurrency 4:
\* 6 workers).
C10_AcceptsConcurrencyAtLeastEndpoints ==
    LET d == ParseDuration(cfg.RunDuration) IN
    (/\ Constructed /\ d.ok
     /\ Len(cfg.Endpoints) >= 1
     /\ cfg.MaxConcurrentRqsts >= Len(cfg.Endpoints)
     /\ ~(cfg.NumRequests > 0 /\ d.d > 0)
     /\ ~(d.d < 1 /\ cfg.NumRequests < cfg.MaxConcurrentRqsts)
     /\ ~(d.d < 1 /\ Len(cfg.Endpoints) > cfg.NumRequests)
     /\ SumPct(cfg.Endpoints) = 100) =>
        /\ sched # NoSched
        /\ (startPc = "wait" => Len(workers) = SumGoroutines(sched, 1))
        /\ ((startPc = "wait" /\ cfg.MaxConcurrentRqsts = 4 /\ Len(cfg.Endpoints) = 3
                /\ \A k \in 1..3 : cfg.Endpoints[k].RqstPercent > 25)
              => Len(workers) = 6)

\* the ceiling of a/b on the exact value, for a >= 0 and b > 0
ExactCeil(a, b) == 0 - ((0 - a) \div b)

\* C11: calcEPConfig returns workerCount = ceil(concurrency*pct/100),
\* perWorkerRequests = ceil(ceil(numRqsts*pct/100) / workerCount) and
\* perWorkerRate = ceil(ceil(rate*pct/100) / workerCount), every ceiling taken
\* on the exact value (where workerCount is 0 the two quotients are undefined
\* and left open); concurrency 4, rate 99, numRqsts 99 and the weights 50, 30
\* and 20 give (25, 2, 25), (15, 2, 15) and (20, 1, 20).
C11_ExactCeilings ==
    (call.fn = "calcEPConfig" /\ ret # <<>>) =>
        LET r   == ret[1]
            pct == call.ep.RqstPercent
            w   == ExactCeil(call.s.concurrency * pct, 100)
        IN /\ r.numEPGoroutines = w
           /\ w > 0 =>
                /\ r.numRqstsPerGoroutine = ExactCeil(ExactCeil(call.s.numRqsts * pct, 100), w)
                /\ r.epGoroutineRqstRate = ExactCeil(ExactCeil(call.s.rqstRate * pct, 100), w)
           /\ (call.s.concurrency = 4 /\ call.s.rqstRate = 99 /\ call.s.numRqsts = 99) =>
                /\ pct = 50 => r = [numRqstsPerGoroutine |-> 25, numEPGoroutines |-> 2,
                                    epGoroutineRqstRate |-> 25]
                /\ pct = 30 => r = [numRqstsPerGoroutine |-> 15, numEPGoroutines |-> 2,
                                    epGoroutineRqstRate |-> 15]
                /\ pct = 20 => r = [numRqstsPerGoroutine |-> 20, numEPGoroutines |-> 1,
                                    epGoroutineRqstRate |-> 20]

\* the sum over the endpoints k.. of the workerCount calcEPConfig returns
RECURSIVE SumWorkerCount(_, _)
SumWorkerCount(s, k) ==
    IF k > Len(s.endpoints) THEN 0
    ELSE calcEPConfig(s, s.endpoints[k]).numEPGoroutines + SumWorkerCount(s, k + 1)

\* the sum over the endpoints k.. of perWorkerRequests * workerCount
RECURSIVE SumAllocated(_, _)
SumAllocated(s, k) ==
    IF k > Len(s.endpoints) THEN 0
    ELSE LET c == calcEPConfig(s, s.endpoints[k])
         IN c.numRqstsPerGoroutine * c.numEPGoroutines + SumAllocated(s, k + 1)

\* C12: for every configuration NewScheduler accepts, the workerCounts of the
\* endpoints sum to at least the configured concurrency, and Start spawns
\* that many workers.
C12_WorkersCoverConcurrency ==
    sched.valid =>
        /\ SumWorkerCount(sched, 1) >= sched.concurrency
        /\ startPc = "wait" => Len(workers) = SumWorkerCount(sched, 1)

\* an accepted configuration whose rounding gives more workers than the
\* concurrency, spawned
C12_Witness ==
    /\ sched.valid /\ startPc = "wait"
    /\ Len(workers) > sched.concurrency

\* C13: for every configuration NewScheduler accepts with numRqsts > 0,
\* perWorkerRequests * workerCount summed over the endpoints is at least
\* numRqsts.
C13_RequestsNotUnderAllocated ==
    (sched.valid /\ sched.numRqsts > 0) => SumAllocated(sched, 1) >= sched.numRqsts

\* C14: when the response channel is closed every worker invocation has
\* completed, and the requests handed to the Requestor over all invocations
\* total the sum over the endpoints of workerCount * perWorkerRequests, which
\* may exceed numRqsts: 6 for concurrency 2, numRqsts 5 and one endpoint at
\* 100%.
C14_HandedRequestsEqualAllocation ==
    chClosed > 0 =>
        /\ AllReturned
        /\ actualNumRqstrs = SumAllocated(sched, 1)
        /\ (sched.concurrency = 2 /\ sched.numRqsts = 5 /\ Len(sched.endpoints) = 1)
              => actualNumRqstrs = 6

\* the run of TestRqstrInteractions, its channel closed
C14_Witness ==
    /\ chClosed > 0 /\ sched.valid
    /\ sched.concurrency = 2 /\ sched.numRqsts = 5 /\ Len(sched.endpoints) = 1
    /\ Len(workers) = 2 /\ actualNumRqstrs = 6

\* C15: ProcessRqst called with numRqsts = n > 0 for an endpoint with a URL
\* and a method, every request succeeding and no cancellation: each Response
\* it puts on the channel carries the status code of the request just
\* completed and the URL and method of the endpoint, it never sends more than
\* n, after the n-th it returns, and when it has returned it has issued n
\* requests and sent n Responses.
C15_OneResponsePerRequest ==
    [][ \A w \in WorkerIds :
          LET a == workers[w]
              b == workers'[w]
              n == call.numRqsts
          IN (/\ call.fn = "ProcessRqst" /\ n > 0
              /\ a.ep.URL # "" /\ a.ep.Method # ""
              /\ b.err = "none" /\ ctx' = "active") =>
                /\ b.sent <= n
                /\ b.sent = a.sent + 1 =>
                      /\ ch' = Append(ch, ch'[Len(ch')])
                      /\ ch'[Len(ch')].HTTPStatus = a.status /\ a.status \in Statuses
                      /\ ch'[Len(ch')].URL = a.ep.URL
                      /\ ch'[Len(ch')].Method = a.ep.Method
                /\ (a.pc = "loop" /\ a.sent = n /\ b # a) => b.pc = "returned"
                /\ b.pc = "returned" => (b.issued = n /\ b.succeeded = n /\ b.sent = n) ]_vars

\* ProcessRqst has returned after three requests answered with different
\* status codes, its three Responses received
C15_Witness ==
    /\ call.fn = "ProcessRqst" /\ call.numRqsts = 3 /\ ctx = "active"
    /\ Len(workers) = 1 /\ workers[1].pc = "returned" /\ workers[1].sent = 3
    /\ Len(responses) = 3 /\ responses[1].HTTPStatus # responses[3].HTTPStatus
    /\ responses[1].URL = call.ep.URL

\* the sum of the counts of the bins in keys
RECURSIVE SumBins(_, _)
SumBins(bins, keys) ==
    IF keys = {} THEN 0
    ELSE LET k == CHOOSE x \in keys : TRUE IN bins[k] + SumBins(bins, keys \ {k})

\* the number of observations a histogram holds, tail bin included
HistTotal(h) == SumBins(h.bins, DOMAIN h.bins) + (IF h.tail = <<>> THEN 0 ELSE h.tail[1].count)

\* C16: for every list of observations and every valid normFactor, the counts
\* of all the bins of the generated histogram, tail bin included, sum to the
\* number of observations.
C16_HistogramConservesCount ==
    (call.fn = "generateHistogram" /\ ret # <<>>) => HistTotal(ret[1].hist) = Len(call.obs)

\* C17: with no observation (the minimum still MaxInt64, the maximum -1) the
\* generated histogram has no regular bin and no tail bin, and the returned
\* pair is minBinCount = MaxInt32, maxBinCount = 0, for every valid
\* normFactor.
C17_EmptyHistogramSentinels ==
    (call.fn = "generateHistogram" /\ ret # <<>> /\ call.obs = <<>>) =>
        /\ DOMAIN ret[1].hist.bins = {}
        /\ ret[1].hist.tail = <<>>
        /\ ret[1].hist.minBinCount = MaxInt32
        /\ ret[1].hist.maxBinCount = 0

\* an api.RqstStats without its list of timings
StatsOf(st) ==
    [TotalRqsts |-> st.TotalRqsts, TotalRequestDuration |-> st.TotalRequestDuration,
     MaxRqstDuration |-> st.MaxRqstDuration, MinRqstDuration |-> st.MinRqstDuration,
     AvgRqstDuration |-> st.AvgRqstDuration]

\* the statistics of a run: global, by (URL, method), the status
\* distributions and the histogram
Statistics(a) ==
    [global   |-> StatsOf(a.results),
     summary  |-> a.results.EndpointSummary,
     dist     |-> [url \in DOMAIN a.results.EndpointDetails |->
                      a.results.EndpointDetails[url].HTTPMethodStatusDist],
     byMethod |-> [url \in DOMAIN a.results.EndpointDetails |->
                      [m \in DOMAIN a.results.EndpointDetails[url].HTTPMethodRqstStats |->
                          StatsOf(a.results.EndpointDetails[url].HTTPMethodRqstStats[m])]],
     hist     |-> a.hist]

\* C18: the statistics obtained by accumulating and finalizing a list of
\* Responses (counts, total durations, minima, maxima, averages, globally and
\* by endpoint and method, the status-code distributions and the histogram)
\* are those obtained from every other order of the same Responses.
C18_OrderIndependent ==
    (call.fn = "accumulateResponseStats" /\ ret # <<>>) =>
        \A p \in Permutations(1..Len(call.resps)) :
            Statistics(Aggregate([j \in 1..Len(call.resps) |-> call.resps[p[j]]],
                                 call.NormFactor))
                = Statistics(ret[1])

\* three Responses of one endpoint and method with different durations and
\* status codes, the slowest first, accumulated
C18_Witness ==
    /\ call.fn = "accumulateResponseStats" /\ ret # <<>> /\ Len(call.resps) = 3
    /\ call.resps[1].RequestDuration > call.resps[2].RequestDuration
    /\ call.resps[1].URL = call.resps[2].URL /\ call.resps[1].Method = call.resps[2].Method
    /\ call.resps[1].HTTPStatus # call.resps[3].HTTPStatus
    /\ ret[1].results.MaxRqstDuration = call.resps[1].RequestDuration

\* the number of Responses of resps that satisfy P
CountResps(resps, P(_)) == Cardinality({ j \in 1..Len(resps) : P(resps[j]) })

\* C19: after any sequence of accumulate calls, for every (URL, method) the
\* per-method TotalRqsts, the EndpointSummary count and the sum of the
\* status-code counts of the method all equal the number of accumulated
\* Responses with that pair (none is recorded for a pair never seen), and
\* there is one EndpointDetail for each URL seen and for no other.
C19_PerEndpointCounts ==
    (call.fn = "accumulateResponseStats" /\ ret # <<>>) =>
        LET acc  == ret[1].accumulated
            urls == { call.resps[j].URL : j \in 1..Len(call.resps) }
        IN /\ DOMAIN acc.EndpointDetails = urls
           /\ DOMAIN acc.EndpointSummary = urls
           /\ \A url \in urls :
                LET detail  == acc.EndpointDetails[url]
                    methods == { call.resps[j].Method :
                                   j \in { k \in 1..Len(call.resps) : call.resps[k].URL = url } }
                IN /\ detail.URL = url
                   /\ DOMAIN detail.HTTPMethodRqstStats = methods
                   /\ DOMAIN detail.HTTPMethodStatusDist = methods
                   /\ DOMAIN acc.EndpointSummary[url] = methods
                   /\ \A m \in methods :
                        LET n == CountResps(call.resps, LAMBDA r : r.URL = url /\ r.Method = m)
                            dist == detail.HTTPMethodStatusDist[m]
                        IN /\ detail.HTTPMethodRqstStats[m].TotalRqsts = n
                           /\ acc.EndpointSummary[url][m] = n
                           /\ SumBins(dist, DOMAIN dist) = n
                           /\ \A st \in DOMAIN dist :
                                dist[st] = CountResps(call.resps,
                                    LAMBDA r : r.URL = url /\ r.Method = m /\ r.HTTPStatus = st)

\* Responses of two URLs, one of them called with two methods, accumulated
C19_Witness ==
    /\ call.fn = "accumulateResponseStats" /\ ret # <<>>
    /\ Cardinality(DOMAIN ret[1].accumulated.EndpointDetails) = 2
    /\ \E url \in DOMAIN ret[1].accumulated.EndpointDetails :
          Cardinality(DOMAIN ret[1].accumulated.EndpointDetails[url].HTTPMethodRqstStats) = 2

\* the number of durations of durations below v, and not above it
NumBelow(durations, v) == Cardinality({ j \in 1..Len(durations) : durations[j] < v })
NumUpTo(durations, v) == Cardinality({ j \in 1..Len(durations) : durations[j] <= v })

\* C20: for p in {75, 90, 95, 99} and a non-empty list of n durations,
\* calcPercentiles returns the element at index ceil((n-1)*p / 100) of the
\* list in ascending order, that is a duration v with at most that many
\* durations below it and more than that many not above it; for an empty
\* list it returns 0.
C20_PercentileIndex ==
    (call.fn = "calcPercentiles" /\ ret # <<>>) =>
        LET n   == Len(call.results)
            idx == CHOOSE i \in 0..n : 100 * i >= (n - 1) * call.percentile
                                       /\ 100 * (i - 1) < (n - 1) * call.percentile
        IN /\ n = 0 => ret[1] = 0
           /\ (n > 0 /\ call.percentile \in {75, 90, 95, 99}) =>
                /\ idx < n
                /\ \E j \in 1..n : call.results[j] = ret[1]
                /\ NumBelow(call.results, ret[1]) <= idx
                /\ NumUpTo(call.results, ret[1]) > idx

\* P75 of 100 ms and 1000 ms is 1000 ms
C20_Witness ==
    /\ call.fn = "calcPercentiles" /\ ret # <<>>
    /\ call.percentile = 75
    /\ call.results = <<100 * Millisecond, 1000 * Millisecond>>
    /\ ret[1] = 1000 * Millisecond

\* C21: for a non-empty list of durations each of P75, P90, P95 and P99 of
\* calcPercentiles is at least the median that calcPMedian gives for the list.
C21_PercentilesAtLeastMedian ==
    (/\ call.fn = "calcPercentiles" /\ ret # <<>>
     /\ call.percentile \in {75, 90, 95, 99} /\ Len(call.results) > 0) =>
        ret[1] >= calcPMedian(call.results)

\* P99 of 100 ms and 1000 ms, whose median 550 ms lies between the two
C21_Witness ==
    /\ call.fn = "calcPercentiles" /\ ret # <<>>
    /\ call.percentile = 99
    /\ call.results = <<100 * Millisecond, 1000 * Millisecond>>
    /\ calcPMedian(call.results) = 550 * Millisecond
    /\ ret[1] = 1000 * Millisecond

\* v is an element of durations that stands at index i (from 0) of the list
\* in ascending order
IsAtIndex(durations, i, v) ==
    /\ \E j \in 1..Len(durations) : durations[j] = v
    /\ NumBelow(durations, v) <= i
    /\ NumUpTo(durations, v) > i

\* C22: calcPMedian returns the middle element of the sorted list when the
\* length is odd and the average (integer division by 2) of the two central
\* elements when it is even; calcPMin returns the smallest element; both
\* return 0 for an empty list.
C22_MedianAndMin ==
    LET n == Len(call.results)
    IN /\ (call.fn = "calcPMedian" /\ ret # <<>>) =>
            /\ n = 0 => ret[1] = 0
            /\ n % 2 = 1 => IsAtIndex(call.results, (n - 1) \div 2, ret[1])
            /\ (n > 0 /\ n % 2 = 0) =>
                 \E j, k \in 1..n :
                    /\ IsAtIndex(call.results, n \div 2 - 1, call.results[j])
                    /\ IsAtIndex(call.results, n \div 2, call.results[k])
                    /\ ret[1] = (call.results[j] + call.results[k]) \div 2
       /\ (call.fn = "calcPMin" /\ ret # <<>>) =>
            /\ n = 0 => ret[1] = 0
            /\ n > 0 => /\ \E j \in 1..n : call.results[j] = ret[1]
                        /\ \A j \in 1..n : ret[1] <= call.results[j]

\* the median of 100 ms and 1000 ms is 550 ms
C22_Witness ==
    /\ call.fn = "calcPMedian" /\ ret # <<>>
    /\ call.results = <<100 * Millisecond, 1000 * Millisecond>>
    /\ ret[1] = 550 * Millisecond

\* C23: when the RqstPercents add up to 100, the Requests that the queue-based
\* Requestor.Start has sent over a whole count-mode run of numRqsts requests
\* are split in proportion to RqstPercent: numRqsts * pct_e / 100 for endpoint
\* e, wherever that is a whole number.
C23_ProportionalSplit ==
    (rqstor.pc = "done" /\ rqstor.numRqsts > 0) =>
        \A j \in 1..Len(call.eps) :
            (rqstor.numRqsts * call.eps[j].RqstPercent) % 100 = 0 =>
                MapGet(rqstDist, call.eps[j].URL, 0) * 100
                    = rqstor.numRqsts * call.eps[j].RqstPercent

\* the arguments Start is to call the Requestor with for the k-th endpoint
ArgsOf(s, k) ==
    LET c == calcEPConfig(s, s.endpoints[k])
    IN [ep |-> s.endpoints[k], numRqsts |-> c.numRqstsPerGoroutine,
        runDur |-> s.runDur, rqstRate |-> c.epGoroutineRqstRate]

\* C24: Start invokes the Requestor workerCount_i times for each endpoint i,
\* each time with endpoint i, its perWorkerRequests_i and perWorkerRate_i and
\* the scheduler's runDur; in every interleaving of the goroutines no
\* invocation sees another endpoint or another endpoint's values.
C24_EachWorkerGetsItsOwnValues ==
    spawn.pc # "none" =>
        /\ \A g \in 1..Len(spawn.goroutines) :
              spawn.goroutines[g].pc # "spawned" =>
                  spawn.goroutines[g].args = ArgsOf(call.s, spawn.goroutines[g].turn)
        /\ spawn.pc = "closed" =>
              \A k \in 1..Len(call.s.endpoints) :
                  Cardinality({ g \in 1..Len(spawn.goroutines) :
                                  spawn.goroutines[g].turn = k /\ spawn.goroutines[g].pc = "done" })
                      = calcEPConfig(call.s, call.s.endpoints[k]).numEPGoroutines

\* a goroutine of the first endpoint has called the Requestor only when the
\* loop was at the second endpoint, whose values are others
C24_Witness ==
    /\ spawn.pc # "none"
    /\ \E g \in 1..Len(spawn.goroutines) :
          /\ spawn.goroutines[g].pc # "spawned"
          /\ spawn.goroutines[g].turn = 1 /\ spawn.goroutines[g].during = 2
          /\ ArgsOf(call.s, 1) # ArgsOf(call.s, 2)

C26_EveryEndpointHasWorker ==
    sched.valid =>
        \A k \in 1..Len(sched.endpoints) :
            calcEPConfig(sched, sched.endpoints[k]).numEPGoroutines >= 1

\* ProcessRqst was called on its own with numRqsts = 0 for an endpoint with a
\* URL and a method
CalledUnbounded ==
    /\ call.fn = "ProcessRqst" /\ call.numRqsts = 0 /\ Len(workers) = 1
    /\ call.ep.URL # "" /\ call.ep.Method # ""

Disturbed ==
    \/ ctx # "active"
    \/ mainPc = "waitDone"
    \/ \E w \in WorkerIds : workers[w].err # "none"

\* every worker has sent its whole allocation and returned, Start has closed
\* the response channel, the aggregator has received every Response, published
\* once and closed the done channel, and main has returned
PipelineFinished ==
    /\ \A w \in WorkerIds :
          /\ workers[w].pc = "returned"
          /\ workers[w].sent = workers[w].numRqsts
    /\ startPc = "done" /\ chClosed = 1 /\ ch = <<>>
    /\ Len(responses) = TotalSent
    /\ aggPc = "done" /\ published = 1 /\ doneClosed = 1
    /\ mainPc = "exited" /\ ~crashed

\* C28: a count-mode run whose configuration was accepted with at least one
\* worker, in which no request fails, no signal arrives and the context stays
\* active, runs to its end: the workers finish their allocations, Start closes
\* the response channel, the aggregator drains it (handing each tick to the
\* progress bar), publishes and closes the done channel, and main returns.
C28_CountModeTerminates ==
    (mainPc = "new" /\ cfg.NumRequests > 0 /\ cfg.MaxConcurrentRqsts > 0)
        ~> (Disturbed \/ (PipelineFinished /\ TotalSent >= 1))

\* a count-mode run has ended undisturbed, with Responses sent and progress
\* ticks handed to the bar
C28_Witness ==
    /\ cfg.NumRequests > 0 /\ cfg.MaxConcurrentRqsts > 0 /\ ~Disturbed /\ PipelineFinished
    /\ TotalSent >= 2 /\ bar >= 1

\* the channel on which the aggregator is waiting for another task: ResponseC
\* when it is empty and open, ProgressC when the progress bar is not at its
\* receive
AggBlockedOn ==
    CASE aggPc = "recv" /\ ch = <<>> /\ chClosed = 0 -> "ResponseC"
      [] aggPc = "progress" /\ ~ProgressListening    -> "ProgressC"
      [] OTHER                                        -> "none"

\* C29 as stated: while a run is in progress the aggregator waits for nothing
\* but a Response on the response channel.
C29_BlocksOnlyOnReceive ==
    Running => AggBlockedOn \in {"none", "ResponseC"}

\* C29: in a duration-limited run the aggregator is never at the send on
\* ProgressC, so the receive is its only blocking operation; in a count-limited
\* run it also blocks on that send, after a Response it has received, while the
\* progress bar is busy with the tick before.
C29_BlocksOnReceiveAndProgressSend ==
    Running =>
        /\ cfg.NumRequests = 0 => (aggPc # "progress" /\ AggBlockedOn \in {"none", "ResponseC"})
        /\ aggPc = "progress" => Len(responses) >= 1
        /\ AggBlockedOn = "ProgressC" => (cfg.NumRequests > 0 /\ pbPc = "incr")

\* in a count-limited run the aggregator has received a second Response and
\* waits on ProgressC for the progress bar, busy with the first tick
C29_Witness ==
    /\ Running /\ cfg.NumRequests > 0
    /\ AggBlockedOn = "ProgressC" /\ pbPc = "incr" /\ Len(responses) >= 2

\* ResponseHandler.Start was run on a channel closed without a Response
EmptyRun == call.fn = "Start" /\ call.obs = <<>>

\* C30: a run without any Response completes: the statistics are finalized
\* with TotalRqsts = 0 and an average of 0, the histogram is generated and
\* rendered and the report printed without a panic for every valid normFactor,
\* and Start returns with the done channel closed once.
C30_EmptyRunCompletes ==
    EmptyRun =>
        /\ ~crashed
        /\ aggPc # "recv" => (results.TotalRqsts = 0 /\ results.AvgRqstDuration = 0)
        /\ aggPc = "done" => (published = 1 /\ doneClosed = 1)
        /\ aggPc # "done" => doneClosed = 0

\* C31: when main takes the signal in its select, the shared context is
\* cancelled in that step, before main waits for the done channel; the workers
\* do not go on with an active context while main waits.
C31_SignalCancelsBeforeWaiting ==
    [][(mainPc = "select" /\ mainPc' = "waitDone") => ctx' # "active"]_vars

\* the positions of resps of the Responses of url and method
ScopeOf(resps, url, method) ==
    { j \in 1..Len(resps) : resps[j].URL = url /\ resps[j].Method = method }

\* the sum of the durations of the Responses of resps at the positions js
RECURSIVE SumDurations(_, _)
SumDurations(resps, js) ==
    IF js = {} THEN 0
    ELSE LET j == CHOOSE k \in js : TRUE
         IN resps[j].RequestDuration + SumDurations(resps, js \ {j})

\* q is the integer quotient of total by n, and 0 when n is 0
IsAverage(q, total, n) ==
    IF n = 0 THEN q = 0 ELSE q * n <= total /\ total < (q + 1) * n

\* C32: after finalize the global average is the integer quotient of the sum
\* of the accumulated durations by their number, 0 when nothing was
\* accumulated, and the average of every (URL, method) is the quotient of the
\* sum by the number of the Responses of that pair.
C32_FinalizedAverages ==
    (call.fn = "accumulateResponseStats" /\ ret # <<>>) =>
        LET rr == ret[1].results
            all == 1..Len(call.resps)
        IN /\ IsAverage(rr.AvgRqstDuration, SumDurations(call.resps, all), Len(call.resps))
           /\ rr.TotalRqsts = Len(call.resps)
           /\ \A url \in DOMAIN rr.EndpointDetails :
                \A m \in DOMAIN rr.EndpointDetails[url].HTTPMethodRqstStats :
                    LET js == ScopeOf(call.resps, url, m) IN
                    IsAverage(rr.EndpointDetails[url].HTTPMethodRqstStats[m].AvgRqstDuration,
                              SumDurations(call.resps, js), Cardinality(js))

\* three Responses of two endpoints finalized: a global average of 9 / 3 and
\* an average of 5 / 2, rounded down, for the endpoint with two of them
C32_Witness ==
    /\ call.fn = "accumulateResponseStats" /\ ret # <<>> /\ Len(call.resps) = 3
    /\ ret[1].results.TotalRequestDuration = 9 /\ ret[1].results.AvgRqstDuration = 3
    /\ \E url \in DOMAIN ret[1].results.EndpointDetails :
         \E m \in DOMAIN ret[1].results.EndpointDetails[url].HTTPMethodRqstStats :
            LET st == ret[1].results.EndpointDetails[url].HTTPMethodRqstStats[m] IN
            st.TotalRqsts = 2 /\ st.TotalRequestDuration = 5 /\ st.AvgRqstDuration = 2

\* the (URL, method) pairs that have statistics in the results rr
Scopes(rr) ==
    UNION { { <<url, m>> : m \in DOMAIN rr.EndpointDetails[url].HTTPMethodRqstStats } :
            url \in DOMAIN rr.EndpointDetails }

\* the RqstStats of the pair sc
ScopeStats(rr, sc) == rr.EndpointDetails[sc[1]].HTTPMethodRqstStats[sc[2]]

\* the sums of TotalRqsts and of TotalRequestDuration over the pairs scs
RECURSIVE SumScopeRqsts(_, _)
SumScopeRqsts(rr, scs) ==
    IF scs = {} THEN 0
    ELSE LET sc == CHOOSE x \in scs : TRUE
         IN ScopeStats(rr, sc).TotalRqsts + SumScopeRqsts(rr, scs \ {sc})

RECURSIVE SumScopeDurations(_, _)
SumScopeDurations(rr, scs) ==
    IF scs = {} THEN 0
    ELSE LET sc == CHOOSE x \in scs : TRUE
         IN ScopeStats(rr, sc).TotalRequestDuration + SumScopeDurations(rr, scs \ {sc})

\* C33: after any sequence of accumulate calls the global TotalRqsts and
\* TotalRequestDuration are the sums of those of the (URL, method) pairs; once
\* a Response has been accumulated the global minimum (maximum) is the
\* smallest minimum (largest maximum) of the pairs, and for every pair
\* Min <= Max and both are durations of Responses of that pair.
C33_GlobalIsRollUp ==
    (call.fn = "accumulateResponseStats" /\ ret # <<>>) =>
        LET acc == ret[1].accumulated
            scs == Scopes(acc)
        IN /\ acc.TotalRqsts = SumScopeRqsts(acc, scs)
           /\ acc.TotalRequestDuration = SumScopeDurations(acc, scs)
           /\ (call.resps = <<>>) = (scs = {})
           /\ call.resps # <<>> =>
                /\ \E sc \in scs : acc.MinRqstDuration = ScopeStats(acc, sc).MinRqstDuration
                /\ \A sc \in scs : acc.MinRqstDuration <= ScopeStats(acc, sc).MinRqstDuration
                /\ \E sc \in scs : acc.MaxRqstDuration = ScopeStats(acc, sc).MaxRqstDuration
                /\ \A sc \in scs : acc.MaxRqstDuration >= ScopeStats(acc, sc).MaxRqstDuration
                /\ \A sc \in scs :
                     LET st == ScopeStats(acc, sc)
                         js == ScopeOf(call.resps, sc[1], sc[2])
                     IN /\ st.MinRqstDuration <= st.MaxRqstDuration
                        /\ \E j \in js : call.resps[j].RequestDuration = st.MinRqstDuration
                        /\ \E j \in js : call.resps[j].RequestDuration = st.MaxRqstDuration

\* three Responses of two (URL, method) pairs have been accumulated, the
\* global minimum coming from one pair and the global maximum from the other
C33_Witness ==
    /\ call.fn = "accumulateResponseStats" /\ ret # <<>> /\ Len(call.resps) = 3
    /\ Cardinality(Scopes(ret[1].accumulated)) = 2
    /\ \E a, b \in Scopes(ret[1].accumulated) :
         /\ a # b
         /\ ScopeStats(ret[1].accumulated, a).MinRqstDuration = ret[1].accumulated.MinRqstDuration
         /\ ScopeStats(ret[1].accumulated, a).MaxRqstDuration < ret[1].accumulated.MaxRqstDuration
         /\ ScopeStats(ret[1].accumulated, b).MaxRqstDuration = ret[1].accumulated.MaxRqstDuration

\* the smallest and the largest observation of a non-empty list
TrueMin(obs) == CHOOSE v \in { obs[j] : j \in 1..Len(obs) } : \A j \in 1..Len(obs) : v <= obs[j]
TrueMax(obs) == CHOOSE v \in { obs[j] : j \in 1..Len(obs) } : \A j \in 1..Len(obs) : v >= obs[j]

\* the range the regular bins divide: the maximum, clamped to normFactor
\* times the minimum when normFactor > 1
EffectiveMax(obs, normFactor) ==
    IF normFactor > 1 /\ normFactor * TrueMin(obs) < TrueMax(obs)
    THEN normFactor * TrueMin(obs) ELSE TrueMax(obs)

\* C34: for n >= 1 observations the histogram has numBins = ceil(log2(n + 1))
\* regular bins, bin i with the upper bound i * effectiveMax / numBins, and
\* bin i counts the observations that are <= its bound and > the bound of
\* bin i - 1: every observation up to the last bound is in exactly one
\* regular bin, the first whose bound it does not exceed.
C34_RegularBins ==
    (call.fn = "generateHistogram" /\ ret # <<>> /\ call.obs # <<>>) =>
        LET obs     == call.obs
            n       == Len(obs)
            bins    == ret[1].hist.bins
            numBins == Cardinality(DOMAIN bins)
            effMax  == EffectiveMax(obs, call.NormFactor)
        IN /\ 2^numBins >= n + 1 /\ 2^(numBins - 1) < n + 1
           /\ DOMAIN bins = 1..numBins
           /\ \A i \in 1..numBins :
                bins[i] = Cardinality({ j \in 1..n :
                              /\ obs[j] * numBins <= i * effMax
                              /\ (i > 1 => obs[j] * numBins > (i - 1) * effMax) })

\* C35: for a non-empty list of observations the histogram has a tail bin
\* exactly when normFactor > 1 and normFactor * trueMin < trueMax; the tail
\* bin is keyed at trueMax and counts the observations strictly greater than
\* the last regular bound, which is the clamped range normFactor * trueMin;
\* with normFactor 0 there is no tail bin.
C35_TailBin ==
    (call.fn = "generateHistogram" /\ ret # <<>> /\ call.obs # <<>>) =>
        LET obs     == call.obs
            tail    == ret[1].hist.tail
            clamped == call.NormFactor > 1 /\ call.NormFactor * TrueMin(obs) < TrueMax(obs)
        IN /\ (tail # <<>>) = clamped
           /\ call.NormFactor = 0 => tail = <<>>
           /\ clamped =>
                /\ Len(tail) = 1
                /\ tail[1].key = TrueMax(obs)
                /\ tail[1].count =
                     Cardinality({ j \in 1..Len(obs) :
                                     obs[j] > EffectiveMax(obs, call.NormFactor) })

\* the largest of a non-empty list of durations
LargestOf(durations) ==
    CHOOSE v \in { durations[j] : j \in 1..Len(durations) } :
        \A j \in 1..Len(durations) : durations[j] <= v

\* C36: for a non-empty list of n durations and a percentile p from 1 to 100
\* calcPercentiles reads no element outside the list: what it returns lies
\* between the smallest and the largest duration, and where it computes an
\* index (every p but 50, which is the median) the result is an element that
\* stands at an index within 0..n-1 of the sorted list, and no smaller
\* percentile gives a larger result; so min <= P75 <= P90 <= P95 <= P99 <= max.
C36_IndexInRangeAndMonotone ==
    (/\ call.fn = "calcPercentiles" /\ ret # <<>>
     /\ Len(call.results) > 0 /\ call.percentile \in 1..100) =>
        LET n   == Len(call.results)
            res == call.results
            p   == call.percentile
        IN /\ calcPMin(res) <= ret[1]
           /\ ret[1] <= LargestOf(res)
           /\ p # 50 =>
                /\ \E i \in 0..(n - 1) : IsAtIndex(res, i, ret[1])
                /\ \A q \in 1..p : q # 50 => calcPercentiles(q, res) <= ret[1]
           /\ p = 99 =>
                /\ calcPercentiles(75, res) <= calcPercentiles(90, res)
                /\ calcPercentiles(90, res) <= calcPercentiles(95, res)
                /\ calcPercentiles(95, res) <= ret[1]

\* P99 of the five durations 100 ms to 500 ms is the largest, above P75
C36_Witness ==
    /\ call.fn = "calcPercentiles" /\ ret # <<>>
    /\ call.percentile = 99
    /\ call.results = Steps(100 * Millisecond, 100 * Millisecond, 5)
    /\ calcPercentiles(75, call.results) = 400 * Millisecond
    /\ ret[1] = 500 * Millisecond

\* the Requests the test's scheduler has received on schedC
QueueSent == MapGet(rqstDist, "url1", 0) + MapGet(rqstDist, "url2", 0) + MapGet(rqstDist, "url3", 0)
\* Start is running, or has run, in count mode
InCountMode == rqstor.pc \in {"loop", "send", "closing", "done"} /\ rqstor.numRqsts > 0
\* the turns of the loop that found nothing queued
QueueHoles == rqstor.i - QueueSent

\* C37: in count mode and without cancellation the queue-based
\* Requestor.Start never sends more than numRqsts Requests, every turn that
\* finds nothing queued raises the limit of the loop by one instead of
\* counting as a request, the loop always ends, and when it has ended exactly
\* numRqsts Requests were sent and doneC is closed, once.
C37_CountModeSendsNumRqsts ==
    /\ [](InCountMode =>
            /\ QueueSent <= rqstor.numRqsts
            /\ rqstor.rqstsToProcess = rqstor.numRqsts + QueueHoles
            /\ rqstor.pc \in {"closing", "done"} => QueueSent = rqstor.numRqsts)
    /\ [][rqstor.pc = "done" => rqstor'.pc = "done"]_vars
    /\ ((rqstor.pc = "loop" /\ rqstor.numRqsts > 0) ~> rqstor.pc = "done")

\* a run of 10 requests that has ended after turns that found nothing queued
C37_Witness ==
    /\ rqstor.pc = "done" /\ rqstor.numRqsts = 10
    /\ QueueSent = 10 /\ rqstor.rqstsToProcess > 10

\* NewRequestor has returned a Requestor for a run bounded by its duration
InDurationMode ==
    /\ "numRqsts" \in DOMAIN rqstor
    /\ rqstor.numRqsts = 0 /\ rqstor.runDur > 0

\* C38: in duration mode the queue-based Requestor.Start sends Requests until
\* runDur has elapsed and then closes doneC: it stops in no other way.
C38_DurationModeRuns ==
    InDurationMode => rqstor.pc \in {"loop", "send", "closing", "done"}

\* how many times the endpoint of a URL is queued in rqstSched
QueuedTimes(url) ==
    Cardinality({ <<k, j>> \in (DOMAIN rqstor.rqstSched) \X (1..QueueMaxEps) :
                    /\ j <= Len(rqstor.rqstSched[k])
                    /\ rqstor.rqstSched[k][j].ep.URL = url })

\* C39: after any sequence of calls of getNextRqst every endpoint given to
\* NewRequestor is queued exactly once somewhere in rqstSched.
C39_EndpointsPreserved ==
    "rqstSched" \in DOMAIN rqstor =>
        \A j \in 1..Len(rqstor.endpoints) : QueuedTimes(rqstor.endpoints[j].URL) = 1

====
